---- MODULE Spec2Model ----
(***************************************************************************)
(* The turn loops of the codelab scripts: runChatWithTool (step 3, direct  *)
(* execution with executeToolCall) and runDemo (step 4, CoreToolScheduler  *)
(* with interactive approval over readline), and the REPL of step 5.  The  *)
(* chat backend, the tools and the operator are the environment: they      *)
(* choose the streamed parts, the tool results and the lines entered.      *)
(***************************************************************************)
EXTENDS Integers, Sequences, FiniteSets, TLC

\* ---------------------------------------------------------------- bounds
\* Parts the backend streams in one reply, at most.
MaxParts == 3
\* Function calls one reply carries, at most.
MaxCalls == 2
\* Rounds with tool calls in one run of a turn loop, at most.
MaxToolRounds == 2
\* Characters of a line entered at the approval prompt, at most.
MaxLine == 2
\* Lines the operator enters at the prompt of the step 5 REPL, at most.
MaxReplLines == 4

\* ------------------------------------------------------------------ text
\* Text is a sequence of characters; " " stands for any whitespace.
Concat(s, t) == s \o t

IsSpace(c) == c = " "

RECURSIVE TrimStart(_)
TrimStart(s) ==
  IF s # <<>> /\ IsSpace(Head(s)) THEN TrimStart(Tail(s)) ELSE s

RECURSIVE TrimEnd(_)
TrimEnd(s) ==
  IF s # <<>> /\ IsSpace(s[Len(s)]) THEN TrimEnd(SubSeq(s, 1, Len(s) - 1)) ELSE s

\* String.prototype.trim
Trim(s) == TrimEnd(TrimStart(s))

LowerChar(c) ==
  CASE c = "Y" -> "y"
    [] c = "A" -> "a"
    [] c = "E" -> "e"
    [] c = "S" -> "s"
    [] c = "N" -> "n"
    [] OTHER -> c

\* String.prototype.toLowerCase
ToLowerCase(s) == [i \in 1..Len(s) |-> LowerChar(s[i])]

\* ------------------------------------------------------ the backend's parts
ToolNames == {"read_file", "write_file"}

NoFc == [name |-> "none"]
FunctionCalls == {[name |-> n] : n \in ToolNames}

ContentPart(t) == [text |-> t, thought |-> FALSE, functionCall |-> NoFc]
ThoughtPart(t) == [text |-> t, thought |-> TRUE, functionCall |-> NoFc]
CallPart(fc) == [text |-> <<>>, thought |-> FALSE, functionCall |-> fc]

\* What one streamed part can be: content text, whitespace, thought text, a
\* function call, and a part that carries text and a function call at once.
PartSet ==
  {ContentPart(<<"a">>), ContentPart(<<" ">>), ThoughtPart(<<"t">>)}
    \cup {CallPart(fc) : fc \in FunctionCalls}
    \cup {[text |-> <<"a">>, thought |-> FALSE, functionCall |-> [name |-> "write_file"]]}

HasCall(p) == p.functionCall # NoFc

\* ------------------------------------------------ tool results (payloads)
FunctionResponse(n, r) == [kind |-> "functionResponse", name |-> n, result |-> r]
InlineData(n) == [kind |-> "inlineData", name |-> n, result |-> "data"]
PromptPart == [kind |-> "text", name |-> "prompt", result |-> "prompt"]

\* responseParts is a PartListUnion: one part, or an array of parts.
SinglePart(p) == [isArray |-> FALSE, parts |-> <<p>>]
PartArray(ps) == [isArray |-> TRUE, parts |-> ps]

\* What a tool that ran to the end answers: its output as one functionResponse
\* part, or (binary content) a functionResponse part followed by the data.
SuccessResponses(n) ==
  {SinglePart(FunctionResponse(n, "output")),
   PartArray(<<FunctionResponse(n, "output"), InlineData(n)>>)}
ErrorResponse(n) == SinglePart(FunctionResponse(n, "error"))
CancelResponse(n) == SinglePart(FunctionResponse(n, "cancelled"))

\* Array.isArray(responseParts) ? responseParts : [responseParts]
AsArray(rp) == rp.parts

\* ----------------------------------------------------------------- state
VARIABLES
  script,            \* which turn loop runs: "step3" (runChatWithTool), "step4" (runDemo)
  pc,                \* where the loop is: send, stream, tools, await, done, failed
  failure,           \* why the loop failed: none, backend, TypeError
  messages,          \* messages[0].parts, the input of the next request
  requests,          \* requests made to the backend by this run
  toolRounds,        \* rounds of this run whose reply carried function calls
  reply,             \* the parts of the current reply consumed so far
  functionCalls,     \* functionCalls of the current round
  thinkingText,      \* thinkingText (runChatWithTool)
  responseText,      \* responseText (runChatWithTool), streamedText (runDemo)
  answer,            \* the text printed under "Assistant:"
  executorCalls,     \* executeToolCall / scheduler.schedule calls of this round
  toolResponses,     \* step 3: the toolResponse of each call executed, in order
  toolResponseParts, \* step 3: toolResponseParts
  toolCalls,         \* step 4: the scheduler's tool calls, in batch order
  autoApprove,       \* step 4: tool names the scheduler no longer asks about
  completedCalls,    \* step 4: what onAllToolCallsComplete was given
  schedulerFinished, \* step 4: the schedulerFinished promise is resolved
  questionCallback,  \* readline: the pending question's callback (a handler)
  droppedQuestions,  \* readline: this batch's rl.question calls made while one was pending
  confirmCount,      \* step 4: onConfirm invocations per call of the batch
  lastAnswer,        \* the approval prompt alone: the line read and its outcome
  approvedEarlier,   \* session: tool names answered "a" in a batch before this one
  callSignals,       \* the AbortSignal each call of the round was given, in batch order
  replLines,         \* step 5: 'line' events handled so far
  replStreams,       \* step 5: sendStreamingMessage calls consuming their stream
  replBatches,       \* step 5: batches given to the scheduler and not yet complete
  replFollowUps,     \* step 5: chat.sendMessage calls of onAllToolCallsComplete pending
  replQuestion,      \* step 5: confirm() has a question pending on readline
  replErrors,        \* step 5: errors printed by the catch of the line handler
  reasoning,         \* the text of the round printed dim, as the model's reasoning
  apiKey,            \* process.env.GEMINI_API_KEY is set
  exitCode,          \* the exit code of the process in a tuple, empty while it runs
  request,           \* a function call alone: the call, the clock and its request
  calculation,       \* the calculator alone: the expression and what execute gave
  isThinking,        \* step 2: isThinking
  hasThoughts,       \* step 5: hasThoughts
  hasContent,        \* steps 2 and 5: hasContent
  thoughtCount,      \* step 2: thoughtCount
  contentCount,      \* step 2: contentCount
  printed,           \* steps 2 and 5: what the stream loop wrote, in order
  spinning,          \* step 5: the interval timer of the spinner is set
  prompts,           \* step 5: calls of rl.prompt() since the line was entered
  scheduleRejected,  \* step 4: the promise of scheduler.schedule has rejected
  inputClosed        \* step 4: the input of readline has ended

loopVars ==
  <<script, pc, failure, messages, requests, toolRounds, reply,
    functionCalls, thinkingText, responseText, answer, executorCalls>>
step3Vars == <<toolResponses, toolResponseParts>>
schedVars == <<toolCalls, autoApprove, completedCalls, schedulerFinished, confirmCount>>
rlVars == <<questionCallback, droppedQuestions>>
sessionVars == <<approvedEarlier, callSignals>>
replVars ==
  <<replLines, replStreams, replBatches, replFollowUps, replQuestion, replErrors>>
mainVars == <<apiKey, exitCode>>
pureVars == <<request, calculation>>
streamVars == <<isThinking, hasThoughts, hasContent, thoughtCount, contentCount, printed>>
turnVars == <<spinning, prompts>>
faultVars == <<scheduleRejected, inputClosed>>
extraVars == <<mainVars, pureVars, streamVars, turnVars, faultVars>>
vars ==
  <<loopVars, step3Vars, schedVars, rlVars, lastAnswer, sessionVars, replVars,
    reasoning, extraVars>>

\* No line read yet.
NoAnswer == [line |-> <<>>, outcome |-> "none"]

\* No question pending: readline's kQuestionCallback is null.
NoCallback == [snapshot |-> <<>>, index |-> 0, batch |-> 0]

\* The state before the loop, the approval prompt aside.
InitLoop ==
  /\ script \in {"step3", "step4"}
  /\ pc = "main"
  /\ failure = "none"
  /\ messages = <<PromptPart>>
  /\ requests = 0
  /\ toolRounds = 0
  /\ reply = <<>>
  /\ functionCalls = <<>>
  /\ thinkingText = <<>>
  /\ responseText = <<>>
  /\ answer = <<>>
  /\ executorCalls = 0
  /\ toolResponses = <<>>
  /\ toolResponseParts = <<>>
  /\ toolCalls = <<>>
  /\ autoApprove = {}
  /\ completedCalls = <<>>
  /\ schedulerFinished = FALSE
  /\ questionCallback = NoCallback
  /\ droppedQuestions = 0
  /\ confirmCount = <<>>
  /\ approvedEarlier = {}
  /\ callSignals = <<>>
  /\ reasoning = <<>>

\* No function call looked at, no expression given to the calculator.
NoRequest == [fc |-> <<>>]
NoCalculation == [expression |-> <<>>]

\* The variables of the scripts that are not running.
InitPure == request = NoRequest /\ calculation = NoCalculation
InitTurnVars == spinning = FALSE /\ prompts = 0
InitFaults == scheduleRejected = FALSE /\ inputClosed = FALSE

InitStream ==
  /\ isThinking = FALSE
  /\ hasThoughts = FALSE
  /\ hasContent = FALSE
  /\ thoughtCount = 0
  /\ contentCount = 0
  /\ printed = <<>>

\* The process starts with or without GEMINI_API_KEY in its environment.
InitMain == apiKey \in BOOLEAN /\ exitCode = <<>>

\* The key is there and main is past its check.
InitKey == apiKey = TRUE /\ exitCode = <<>>

\* main of step 5 before the first line: nothing sent, nothing scheduled.
InitReplVars ==
  /\ replLines = 0
  /\ replStreams = 0
  /\ replBatches = 0
  /\ replFollowUps = 0
  /\ replQuestion = FALSE
  /\ replErrors = 0

Init ==
  /\ InitLoop
  /\ InitReplVars
  /\ lastAnswer = NoAnswer
  /\ InitMain
  /\ InitPure
  /\ InitStream
  /\ InitTurnVars
  /\ InitFaults

\* --------------------------------------------------------- main, exit
\* Where the script goes once main has found the key.
StartOf(s) ==
  CASE s = "step1" -> "hello"
    [] s = "step2" -> "ask"
    [] s = "step5" -> "repl"
    [] OTHER -> "send"

\* if (!process.env.GEMINI_API_KEY) { console.error(...); process.exit(1); }
CheckApiKey ==
  /\ pc = "main"
  /\ exitCode = <<>>
  /\ IF apiKey
     THEN pc' = StartOf(script) /\ UNCHANGED exitCode
     ELSE exitCode' = <<1>> /\ UNCHANGED pc
  /\ UNCHANGED <<script, failure, messages, requests, toolRounds, reply,
                 functionCalls, thinkingText, responseText, answer, executorCalls,
                 step3Vars, schedVars, rlVars, lastAnswer, sessionVars, replVars,
                 reasoning, apiKey, pureVars, streamVars, turnVars, faultVars>>

\* Mutant: a failure that reaches main().catch is printed and the process
\* ends as if nothing had happened.
ExitCodeOfAlwaysZero(at) == 0

\* main().catch(error => { console.error(...); process.exit(1); }); a main that
\* returns leaves nothing to run and the process ends with code 0.
ExitCodeOf(at) == IF at = "failed" THEN 1 ELSE 0

\* The run is over: main has returned, or has thrown and the catch exits.
ProcessExit ==
  /\ pc \in {"done", "failed"}
  /\ exitCode = <<>>
  /\ exitCode' = <<ExitCodeOf(pc)>>
  /\ UNCHANGED <<loopVars, step3Vars, schedVars, rlVars, lastAnswer, sessionVars,
                 replVars, reasoning, apiKey, pureVars, streamVars, turnVars, faultVars>>

\* ------------------------------------------------- consuming the reply
\* runChatWithTool: thought text goes to thinkingText.  runDemo keeps none.
AccumulateThinking(s, text, p) ==
  IF s = "step3" /\ p.thought /\ p.text # <<>> THEN Concat(text, p.text) ELSE text

\* Mutant: the thought flag is not looked at.
AccumulateResponseWithThoughts(s, text, p) ==
  IF p.text # <<>> THEN Concat(text, p.text) ELSE text

\* runChatWithTool: every other text goes to responseText.
\* runDemo: part.text && !part.thought goes to streamedText.
AccumulateResponse(s, text, p) ==
  IF p.text # <<>> /\ ~p.thought THEN Concat(text, p.text) ELSE text

\* Mutant: a function call is put in front of those already collected.
CollectCallsInFront(fcs, p) ==
  IF HasCall(p) THEN <<p.functionCall>> \o fcs ELSE fcs

\* functionCalls.push(part.functionCall) / push(...resp.functionCalls)
CollectCalls(fcs, p) ==
  IF HasCall(p) THEN Append(fcs, p.functionCall) ELSE fcs

\* console.log(responseText.trim()) in runChatWithTool, streamedText in runDemo.
FinalAnswer(s, text) == IF s = "step3" THEN Trim(text) ELSE text

\* The text printed dim before the tools run: (thinkingText + responseText).trim()
\* in runChatWithTool, streamedText in runDemo; nothing is printed when it is empty.
Reasoning(s, thinking, response) ==
  IF s = "step3" THEN Trim(Concat(thinking, response)) ELSE response

\* The final branch of runChatWithTool prints thinkingText.trim() dim before
\* the answer; runDemo prints the answer only.
FinalReasoning(s, thinking) == IF s = "step3" THEN Trim(thinking) ELSE <<>>

\* Mutant: the loop gives up after two requests.
SendCapped ==
  /\ pc = "send"
  \* the request takes messages[0].parts; messages is not read again before
  \* the tool branch replaces it
  /\ messages' = <<>>
  /\ requests' = (IF requests >= 2 THEN requests ELSE requests + 1)
  /\ reply' = <<>>
  /\ functionCalls' = <<>>
  /\ thinkingText' = <<>>
  /\ responseText' = <<>>
  /\ executorCalls' = 0
  /\ \/ pc' = (IF requests >= 2 THEN "done" ELSE "stream") /\ UNCHANGED failure
     \/ pc' = "failed" /\ failure' = "backend"
  \* the previous iteration's locals and its scheduler are gone
  /\ toolResponses' = <<>>
  /\ toolResponseParts' = <<>>
  /\ toolCalls' = <<>>
  /\ autoApprove' = {}
  /\ completedCalls' = <<>>
  /\ schedulerFinished' = FALSE
  /\ confirmCount' = <<>>
  \* handlers of that scheduler left on a dropped question are unreachable
  /\ droppedQuestions' = 0
  \* what the operator answered "a" to is from now on an answer of an earlier batch
  /\ approvedEarlier' = approvedEarlier \cup autoApprove
  /\ callSignals' = <<>>
  /\ reasoning' = <<>>
  /\ UNCHANGED <<script, toolRounds, answer, questionCallback, lastAnswer, replVars, extraVars>>

\* chat.sendMessageStream({message: messages[0]?.parts || [], ...})
Send ==
  /\ pc = "send"
  \* the request takes messages[0].parts; messages is not read again before
  \* the tool branch replaces it
  /\ messages' = <<>>
  /\ requests' = requests + 1
  /\ reply' = <<>>
  /\ functionCalls' = <<>>
  /\ thinkingText' = <<>>
  /\ responseText' = <<>>
  /\ executorCalls' = 0
  /\ \/ pc' = "stream" /\ UNCHANGED failure
     \/ pc' = "failed" /\ failure' = "backend"
  \* the previous iteration's locals and its scheduler are gone
  /\ toolResponses' = <<>>
  /\ toolResponseParts' = <<>>
  /\ toolCalls' = <<>>
  /\ autoApprove' = {}
  /\ completedCalls' = <<>>
  /\ schedulerFinished' = FALSE
  /\ confirmCount' = <<>>
  \* handlers of that scheduler left on a dropped question are unreachable
  /\ droppedQuestions' = 0
  \* what the operator answered "a" to is from now on an answer of an earlier batch
  /\ approvedEarlier' = approvedEarlier \cup autoApprove
  /\ callSignals' = <<>>
  /\ reasoning' = <<>>
  /\ UNCHANGED <<script, toolRounds, answer, questionCallback, lastAnswer, replVars, extraVars>>

\* One part of the for-await loop over the stream.
StreamPart(p) ==
  /\ pc = "stream"
  /\ Len(reply) < MaxParts
  /\ HasCall(p) => Len(functionCalls) < MaxCalls /\ toolRounds < MaxToolRounds
  /\ reply' = Append(reply, p)
  /\ thinkingText' = AccumulateThinking(script, thinkingText, p)
  /\ responseText' = AccumulateResponse(script, responseText, p)
  /\ functionCalls' = CollectCalls(functionCalls, p)
  /\ UNCHANGED <<script, pc, failure, messages, requests, toolRounds,
                 answer, executorCalls, step3Vars, schedVars, rlVars, lastAnswer, sessionVars, replVars, reasoning, extraVars>>

\* Mutant: the loop sends the request again after a failed stream.
StreamFailRetries ==
  /\ pc = "stream"
  /\ pc' = "send"
  /\ failure' = "backend"
  /\ reply' = <<>>
  /\ functionCalls' = <<>>
  /\ thinkingText' = <<>>
  /\ responseText' = <<>>
  /\ UNCHANGED <<script, messages, requests, toolRounds, answer,
                 executorCalls, step3Vars, schedVars, rlVars, lastAnswer, sessionVars, replVars, reasoning, extraVars>>

\* The stream throws while it is consumed.
StreamFail ==
  /\ pc = "stream"
  /\ pc' = "failed"
  /\ failure' = "backend"
  \* the iteration's locals go with the frame
  /\ reply' = <<>>
  /\ functionCalls' = <<>>
  /\ thinkingText' = <<>>
  /\ responseText' = <<>>
  /\ UNCHANGED <<script, messages, requests, toolRounds, answer,
                 executorCalls, step3Vars, schedVars, rlVars, lastAnswer, sessionVars, replVars, reasoning, extraVars>>

\* Mutant: the final branch is taken whatever functionCalls holds.
FinalResponseWithCalls ==
  /\ pc = "stream"
  /\ reasoning' = FinalReasoning(script, thinkingText)
  /\ answer' = FinalAnswer(script, responseText)
  /\ pc' = "done"
  /\ UNCHANGED <<script, failure, messages, requests, toolRounds, reply,
                 functionCalls, thinkingText, responseText, executorCalls,
                 step3Vars, schedVars, rlVars, lastAnswer, sessionVars, replVars, extraVars>>

\* Mutant: a reply without text and without function calls is taken for a
\* failure of the backend's.
FinalResponseRejectsEmpty ==
  /\ pc = "stream"
  /\ functionCalls = <<>>
  /\ reasoning' = FinalReasoning(script, thinkingText)
  /\ IF responseText = <<>> /\ thinkingText = <<>>
     THEN pc' = "failed" /\ failure' = "empty" /\ UNCHANGED answer
     ELSE pc' = "done" /\ answer' = FinalAnswer(script, responseText) /\ UNCHANGED failure
  /\ UNCHANGED <<script, messages, requests, toolRounds, reply,
                 functionCalls, thinkingText, responseText, executorCalls,
                 step3Vars, schedVars, rlVars, lastAnswer, sessionVars, replVars, extraVars>>

\* The stream ends and functionCalls is empty: the final response.
FinalResponse ==
  /\ pc = "stream"
  /\ functionCalls = <<>>
  /\ reasoning' = FinalReasoning(script, thinkingText)
  /\ answer' = FinalAnswer(script, responseText)
  /\ pc' = "done"
  /\ UNCHANGED <<script, failure, messages, requests, toolRounds, reply,
                 functionCalls, thinkingText, responseText, executorCalls,
                 step3Vars, schedVars, rlVars, lastAnswer, sessionVars, replVars, extraVars>>

\* ------------------------------------------------ cancellation tokens
\* abortController.signal of main (step 4): the one controller of the script.
MainSignal == 0

\* new AbortController().signal in the for loop of runChatWithTool: a signal
\* that no earlier call of the batch was given.
NewSignal(signals) == Len(signals) + 1

\* ------------------------------------------------ step 3: executeToolCall
\* toolResponse.responseParts.functionResponse.response.output is read from the
\* value as it is: an array has no functionResponse and the read throws.
ReadOutputThrows(rp) == rp.isArray \/ rp.parts[1].kind # "functionResponse"

\* A part that is a string, and a part that is null or undefined.
StringPart(n) == [kind |-> "string", name |-> n, result |-> "output"]
NullPart == [kind |-> "null", name |-> "none", result |-> "none"]

\* if (toolResponse.responseParts): an array, or a part that is not null.
HasResponseParts(rp) == rp.isArray \/ rp.parts[1].kind # "null"

\* The parts pushed to toolResponseParts: strings wrapped as text parts
\* (typeof part === "string"), the others as they are (else if (part)), null
\* and undefined left out.
RECURSIVE ForwardParts(_)
ForwardParts(ps) ==
  IF ps = <<>> THEN <<>>
  ELSE IF Head(ps).kind = "string"
       THEN <<[Head(ps) EXCEPT !.kind = "text"]>> \o ForwardParts(Tail(ps))
       ELSE IF Head(ps).kind = "null" THEN ForwardParts(Tail(ps))
       ELSE <<Head(ps)>> \o ForwardParts(Tail(ps))

\* The stream ends with function calls, runChatWithTool: the for loop starts.
StartTools ==
  /\ pc = "stream"
  /\ script = "step3"
  /\ functionCalls # <<>>
  /\ reasoning' = Reasoning(script, thinkingText, responseText)
  /\ toolRounds' = toolRounds + 1
  /\ toolResponses' = <<>>
  /\ toolResponseParts' = <<>>
  /\ reply' = <<>>
  /\ thinkingText' = <<>>
  /\ responseText' = <<>>
  /\ pc' = "tools"
  /\ UNCHANGED <<script, failure, messages, requests, functionCalls,
                 answer, executorCalls, schedVars, rlVars, lastAnswer, sessionVars, replVars, extraVars>>

\* What executeToolCall can answer with when responseParts is taken as any
\* PartListUnion: one part of any kind, or an array of any of them.
PartListUnions(n) ==
  {SinglePart(FunctionResponse(n, "output")), ErrorResponse(n),
   SinglePart(StringPart(n)), SinglePart(NullPart), PartArray(<<>>),
   PartArray(<<FunctionResponse(n, "output")>>),
   PartArray(<<FunctionResponse(n, "output"), InlineData(n)>>),
   PartArray(<<StringPart(n), NullPart, FunctionResponse(n, "output")>>)}

\* The body of "for (const fc of functionCalls)" once executeToolCall has
\* answered with r: the response is handled; after the last one messages is
\* replaced.
HandleToolResponse(r) ==
  LET parts == IF HasResponseParts(r)
               THEN toolResponseParts \o ForwardParts(AsArray(r))
               ELSE toolResponseParts
  IN /\ executorCalls' = executorCalls + 1
     /\ toolResponses' = Append(toolResponses, r)
     /\ callSignals' = Append(callSignals, NewSignal(callSignals))
     /\ IF HasResponseParts(r) /\ ReadOutputThrows(r)
        THEN /\ pc' = "failed"
             /\ failure' = "TypeError"
             /\ UNCHANGED <<toolResponseParts, messages>>
        ELSE /\ toolResponseParts' = parts
             /\ UNCHANGED failure
             /\ IF Len(toolResponses) + 1 = Len(functionCalls)
                THEN messages' = parts /\ pc' = "send"
                ELSE UNCHANGED <<messages, pc>>
     /\ UNCHANGED <<script, requests, toolRounds, reply, functionCalls,
                    thinkingText, responseText, answer, schedVars, rlVars, lastAnswer,
                    approvedEarlier, replVars, reasoning, extraVars>>

\* One iteration of "for (const fc of functionCalls)": the call is executed,
\* the tool answers as a tool that ran or failed does.
ExecuteToolCall(r) ==
  /\ pc = "tools"
  /\ Len(toolResponses) < Len(functionCalls)
  /\ LET fc == functionCalls[Len(toolResponses) + 1]
     IN r \in SuccessResponses(fc.name) \cup {ErrorResponse(fc.name)}
  /\ HandleToolResponse(r)

\* The same iteration with any responseParts for an answer.
ExecuteToolCallAny(r) ==
  /\ pc = "tools"
  /\ Len(toolResponses) < Len(functionCalls)
  /\ LET fc == functionCalls[Len(toolResponses) + 1]
     IN r \in PartListUnions(fc.name)
  /\ HandleToolResponse(r)

\* runChatWithTool at the start of the for loop over the function calls of
\* its first reply.
InitTools ==
  /\ script = "step3"
  /\ pc = "tools"
  /\ failure = "none"
  /\ messages = <<>>
  /\ requests = 1
  /\ toolRounds = 1
  /\ reply = <<>>
  /\ \E n \in 1..MaxCalls : functionCalls \in [1..n -> FunctionCalls]
  /\ thinkingText = <<>>
  /\ responseText = <<>>
  /\ answer = <<>>
  /\ executorCalls = 0
  /\ toolResponses = <<>>
  /\ toolResponseParts = <<>>
  /\ toolCalls = <<>>
  /\ autoApprove = {}
  /\ completedCalls = <<>>
  /\ schedulerFinished = FALSE
  /\ questionCallback = NoCallback
  /\ droppedQuestions = 0
  /\ confirmCount = <<>>
  /\ approvedEarlier = {}
  /\ callSignals = <<>>
  /\ lastAnswer = NoAnswer
  /\ reasoning = <<>>
  /\ InitReplVars
  /\ InitKey
  /\ InitPure
  /\ InitStream
  /\ InitTurnVars
  /\ InitFaults

NextTools ==
  \E n \in ToolNames : \E r \in PartListUnions(n) : ExecuteToolCallAny(r)

SpecTools == InitTools /\ [][NextTools]_vars

\* ------------------------------------------- step 4: the approval prompt
Answers ==
  {<<"y">>, <<"Y">>, <<"a">>, <<"A">>, <<"n">>, <<>>, <<"y", "e", "s">>, <<" ", "y">>}

\* Mutant: the switch is on the line as entered.
OutcomeCaseSensitive(line) ==
  CASE line = <<"y">> -> "ProceedOnce"
    [] line = <<"a">> -> "ProceedAlwaysTool"
    [] OTHER -> "Cancel"

\* switch (response.toLowerCase()) { case 'y' ... case 'a' ... default ... }
Outcome(line) ==
  CASE ToLowerCase(line) = <<"y">> -> "ProceedOnce"
    [] ToLowerCase(line) = <<"a">> -> "ProceedAlwaysTool"
    [] OTHER -> "Cancel"

\* What the scheduler's callbacks can reach: readline's pending question and
\* the schedulerFinished promise.
World == [callback |-> questionCallback, dropped |-> droppedQuestions,
          finished |-> schedulerFinished, completed |-> completedCalls,
          closed |-> inputClosed]

\* rl.question(query, cb): readline keeps one question callback.  With a
\* question pending it only shows the prompt again and never calls cb, so the
\* handler that asked stays suspended.  After the input has ended no question
\* is answered either.
Question(w, handler) ==
  IF w.callback # NoCallback \/ w.closed
  THEN [w EXCEPT !.dropped = @ + 1]
  ELSE [w EXCEPT !.callback = handler]

Statuses(calls) == [i \in 1..Len(calls) |-> calls[i].status]

\* The first call at or after position from that the handler's list shows as
\* awaiting approval (with confirmationDetails), 0 when there is none.
NextAwaiting(snapshot, from) ==
  LET S == {i \in from..Len(snapshot) : snapshot[i] = "awaiting_approval"}
  IN IF S = {} THEN 0 ELSE CHOOSE i \in S : \A j \in S : i <= j

\* Mutant: a status update is taken for the end of the batch.
OnToolCallsUpdateResolving(w, calls, batch) ==
  LET i == NextAwaiting(Statuses(calls), 1)
      w1 == [w EXCEPT !.finished = TRUE, !.completed = calls]
  IN IF i = 0 THEN w1
     ELSE Question(w1, [snapshot |-> Statuses(calls), index |-> i, batch |-> batch])

\* onToolCallsUpdate(toolCalls), up to its first await: it walks the list it
\* was given and asks about the first call awaiting approval.
OnToolCallsUpdate(w, calls, batch) ==
  LET i == NextAwaiting(Statuses(calls), 1)
  IN IF i = 0 THEN w
     ELSE Question(w, [snapshot |-> Statuses(calls), index |-> i, batch |-> batch])

\* Mutant: the handler's loop does not move past the call it has confirmed.
ContinueHandlerRepeats(w, handler) ==
  LET j == NextAwaiting(handler.snapshot, handler.index)
  IN IF j = 0 THEN w ELSE Question(w, [handler EXCEPT !.index = j])

\* The handler after onConfirm: the for loop goes on over the same list.
ContinueHandler(w, handler) ==
  LET j == NextAwaiting(handler.snapshot, handler.index + 1)
  IN IF j = 0 THEN w ELSE Question(w, [handler EXCEPT !.index = j])

\* onAllToolCallsComplete(completedCalls): prints, then onComplete(completedCalls),
\* which is the resolve of schedulerFinished.
OnAllToolCallsComplete(w, calls) ==
  [w EXCEPT !.finished = TRUE, !.completed = IF w.finished THEN @ ELSE calls]

\* ------------------------------------ step 4: the scheduler (spec, 4.2)
Terminal == {"completed", "cancelled", "errored"}

NoResponse == [isArray |-> FALSE, parts |-> <<>>]

\* write_file and run_shell_command ask for approval, read_file and the
\* search tool do not.
CalculatorName == "calculate"

\* CalculatorTool.shouldConfirmExecute(): return false
CalculatorShouldConfirmExecute == FALSE

NeedsConfirmation(name) ==
  IF name = CalculatorName THEN CalculatorShouldConfirmExecute
  ELSE name = "write_file"

\* Mutant: the last function call of a round is not scheduled.
ToolRequestsDropLast(fcs) == [i \in 1..Len(fcs) - 1 |-> [name |-> fcs[i].name]]

\* functionCalls.map(fc => ({callId, name, args, isClientInitiated}))
ToolRequests(fcs) == [i \in 1..Len(fcs) |-> [name |-> fcs[i].name]]

\* A call as the scheduler takes it in; decision is the outcome its onConfirm
\* was given, executions counts the runs of its tool.
NewToolCall(req) ==
  [name |-> req.name, status |-> "validating", response |-> NoResponse,
   decision |-> "none", executions |-> 0]

AllTerminal(calls) == \A i \in 1..Len(calls) : calls[i].status \in Terminal

\* validating -> errored | executing | awaiting_approval
Validated(call, valid, approved) ==
  IF ~valid
  THEN [call EXCEPT !.status = "errored", !.response = ErrorResponse(call.name)]
  ELSE IF call.name \in approved \/ ~NeedsConfirmation(call.name)
       THEN [call EXCEPT !.status = "executing", !.executions = @ + 1]
       ELSE [call EXCEPT !.status = "awaiting_approval"]

\* The decision callback: awaiting_approval -> executing | cancelled.  A call
\* that is not awaiting approval ignores it.
Confirmed(call, outcome) ==
  IF call.status # "awaiting_approval" THEN call
  ELSE IF outcome = "Cancel"
       THEN [call EXCEPT !.status = "cancelled", !.response = CancelResponse(call.name),
                         !.decision = outcome]
       ELSE [call EXCEPT !.status = "executing", !.decision = outcome,
                         !.executions = @ + 1]

\* executing -> completed | errored, with the tool's payload
Executed(call, r) ==
  [call EXCEPT !.status = IF r = ErrorResponse(call.name) THEN "errored" ELSE "completed",
               !.response = r]

\* Mutant: a cancelled call contributes nothing to the next input.
RECURSIVE CollectUncancelledParts(_)
CollectUncancelledParts(calls) ==
  IF calls = <<>> THEN <<>>
  ELSE (IF Head(calls).status # "cancelled" /\ Head(calls).response # NoResponse
        THEN AsArray(Head(calls).response) ELSE <<>>)
       \o CollectUncancelledParts(Tail(calls))

\* Mutant: only the calls that completed contribute their parts.
RECURSIVE CollectCompletedParts(_)
CollectCompletedParts(calls) ==
  IF calls = <<>> THEN <<>>
  ELSE (IF Head(calls).status = "completed"
        THEN AsArray(Head(calls).response) ELSE <<>>)
       \o CollectCompletedParts(Tail(calls))

\* if (call.response?.responseParts) toolResponseParts.push(...parts)
RECURSIVE CollectResponseParts(_)
CollectResponseParts(calls) ==
  IF calls = <<>> THEN <<>>
  ELSE (IF Head(calls).response # NoResponse
        THEN AsArray(Head(calls).response) ELSE <<>>)
       \o CollectResponseParts(Tail(calls))

SetWorld(w) ==
  /\ questionCallback' = w.callback
  /\ droppedQuestions' = w.dropped
  /\ schedulerFinished' = w.finished
  /\ completedCalls' = w.completed

\* The stream ends with function calls, runDemo: a scheduler is created and
\* the batch scheduled; the loop awaits schedulerFinished.
StartSchedule ==
  /\ pc = "stream"
  /\ script = "step4"
  /\ functionCalls # <<>>
  /\ reasoning' = Reasoning(script, thinkingText, responseText)
  /\ toolRounds' = toolRounds + 1
  /\ executorCalls' = executorCalls + 1
  /\ LET reqs == ToolRequests(functionCalls)
         calls == [i \in 1..Len(reqs) |-> NewToolCall(reqs[i])]
     IN /\ toolCalls' = calls
        /\ confirmCount' = [i \in 1..Len(reqs) |-> 0]
        /\ callSignals' = [i \in 1..Len(reqs) |-> MainSignal]
        /\ SetWorld(OnToolCallsUpdate(
             [World EXCEPT !.finished = FALSE, !.completed = <<>>],
             calls, toolRounds + 1))
  /\ autoApprove' = {}
  /\ reply' = <<>>
  /\ thinkingText' = <<>>
  /\ responseText' = <<>>
  /\ pc' = "await"
  /\ UNCHANGED <<script, failure, messages, requests, functionCalls,
                 answer, step3Vars, lastAnswer, approvedEarlier, replVars, extraVars>>

\* The scheduler moves call i out of validating and notifies.
Validate(i, valid) ==
  /\ pc = "await"
  /\ ~scheduleRejected
  /\ i \in 1..Len(toolCalls)
  /\ toolCalls[i].status = "validating"
  /\ toolCalls' = [toolCalls EXCEPT ![i] = Validated(@, valid, autoApprove)]
  /\ SetWorld(OnToolCallsUpdate(World, toolCalls', toolRounds))
  /\ UNCHANGED <<loopVars, step3Vars, autoApprove, confirmCount, lastAnswer, sessionVars, replVars, reasoning, extraVars>>

\* The tool of call i ends, with a result or an error, and the scheduler notifies.
Execute(i, r) ==
  /\ pc = "await"
  /\ ~scheduleRejected
  /\ i \in 1..Len(toolCalls)
  /\ toolCalls[i].status = "executing"
  /\ r \in SuccessResponses(toolCalls[i].name) \cup {ErrorResponse(toolCalls[i].name)}
  /\ toolCalls' = [toolCalls EXCEPT ![i] = Executed(@, r)]
  /\ SetWorld(OnToolCallsUpdate(World, toolCalls', toolRounds))
  /\ UNCHANGED <<loopVars, step3Vars, autoApprove, confirmCount, lastAnswer, sessionVars, replVars, reasoning, extraVars>>

\* Mutant: proceed-always is passed to every call of the tool that awaits approval.
ConfirmTargetsSameTool(handler, calls, outcome) ==
  {handler.index} \cup
    (IF outcome = "ProceedAlwaysTool"
     THEN {j \in 1..Len(calls) : /\ calls[j].name = calls[handler.index].name
                                 /\ calls[j].status = "awaiting_approval"}
     ELSE {})

\* toolCall.confirmationDetails.onConfirm(outcome): the handler confirms the
\* call its loop is at, and no other.
ConfirmTargets(handler, calls, outcome) == {handler.index}

\* The operator enters a line while a question is pending: readline clears the
\* question and calls its callback; the handler maps the line to an outcome,
\* calls onConfirm (the scheduler moves the call and notifies) and goes on
\* with its loop.
Answer(line) ==
  /\ exitCode = <<>>
  /\ questionCallback # NoCallback
  /\ LET handler == questionCallback
         i == handler.index
         current == handler.batch = toolRounds /\ pc = "await"
         outcome == Outcome(line)
         targets == IF current THEN ConfirmTargets(handler, toolCalls, outcome) ELSE {}
         calls == [j \in 1..Len(toolCalls) |->
                     IF j \in targets THEN Confirmed(toolCalls[j], outcome)
                     ELSE toolCalls[j]]
         w0 == [World EXCEPT !.callback = NoCallback]
         w1 == IF calls # toolCalls
               THEN OnToolCallsUpdate(w0, calls, toolRounds) ELSE w0
     IN /\ toolCalls' = calls
        /\ confirmCount' = [j \in 1..Len(confirmCount) |->
                             IF j \in targets THEN confirmCount[j] + 1
                             ELSE confirmCount[j]]
        /\ autoApprove' = IF current /\ outcome = "ProceedAlwaysTool"
                                     /\ toolCalls[i].status = "awaiting_approval"
                          THEN autoApprove \cup {toolCalls[i].name}
                          ELSE autoApprove
        /\ SetWorld(ContinueHandler(w1, handler))
  /\ UNCHANGED <<loopVars, step3Vars, lastAnswer, sessionVars, replVars, reasoning, extraVars>>

\* Every call of the batch is terminal: the scheduler reports the batch.
AllToolCallsComplete ==
  /\ pc = "await"
  /\ ~scheduleRejected
  /\ AllTerminal(toolCalls)
  /\ ~schedulerFinished
  /\ SetWorld(OnAllToolCallsComplete(World, toolCalls))
  /\ UNCHANGED <<loopVars, step3Vars, toolCalls, autoApprove, confirmCount, lastAnswer, sessionVars, replVars, reasoning, extraVars>>

\* Mutant: the loop ends after the batch instead of going round again.
ResumeLoopBreaks ==
  /\ pc = "await"
  /\ schedulerFinished
  /\ messages' = CollectResponseParts(completedCalls)
  /\ pc' = "done"
  /\ UNCHANGED <<script, failure, requests, toolRounds, reply,
                 functionCalls, thinkingText, responseText, answer, executorCalls,
                 step3Vars, schedVars, rlVars, lastAnswer, sessionVars, replVars, reasoning, extraVars>>

\* Mutant: the response parts are added to the prompt instead of replacing it.
ResumeLoopKeepsPrompt ==
  /\ pc = "await"
  /\ schedulerFinished
  /\ messages' = <<PromptPart>> \o CollectResponseParts(completedCalls)
  /\ pc' = "send"
  /\ UNCHANGED <<script, failure, requests, toolRounds, reply,
                 functionCalls, thinkingText, responseText, answer, executorCalls,
                 step3Vars, schedVars, rlVars, lastAnswer, sessionVars, replVars, reasoning, extraVars>>

\* await schedulerFinished returns: the response parts become the next input.
ResumeLoop ==
  /\ pc = "await"
  /\ schedulerFinished
  /\ messages' = CollectResponseParts(completedCalls)
  /\ pc' = "send"
  /\ UNCHANGED <<script, failure, requests, toolRounds, reply,
                 functionCalls, thinkingText, responseText, answer, executorCalls,
                 step3Vars, schedVars, rlVars, lastAnswer, sessionVars, replVars, reasoning, extraVars>>

Next ==
  \/ CheckApiKey
  \/ ProcessExit
  \/ Send
  \/ \E p \in PartSet : StreamPart(p)
  \/ StreamFail
  \/ FinalResponse
  \/ StartTools
  \/ \E n \in ToolNames :
       \E r \in SuccessResponses(n) \cup {ErrorResponse(n)} : ExecuteToolCall(r)
  \/ StartSchedule
  \/ \E i \in 1..MaxCalls + 1 : \E valid \in BOOLEAN : Validate(i, valid)
  \/ \E i \in 1..MaxCalls + 1 : \E n \in ToolNames :
       \E r \in SuccessResponses(n) \cup {ErrorResponse(n)} : Execute(i, r)
  \/ \E line \in Answers : Answer(line)
  \/ AllToolCallsComplete
  \/ ResumeLoop

Spec == Init /\ [][Next]_vars

\* ---- step 4: what can go wrong under a scheduled batch
\* The promise scheduler.schedule(toolRequests, signal) returned rejects: the
\* scheduler has stopped on an error.  runDemo neither awaits nor catches that
\* promise, and resolve is called by onAllToolCallsComplete alone.
ScheduleRejects ==
  /\ script = "step4"
  /\ pc = "await"
  /\ ~scheduleRejected
  /\ ~AllTerminal(toolCalls)
  /\ scheduleRejected' = TRUE
  /\ UNCHANGED <<loopVars, step3Vars, schedVars, rlVars, lastAnswer, sessionVars,
                 replVars, reasoning, mainVars, pureVars, streamVars, turnVars,
                 inputClosed>>

\* What the runtime makes of the rejection nobody handles: it may end the
\* process with code 1, or only warn (which of the two is a matter of its
\* version and flags).  The loop is not resumed either way.
UnhandledRejection ==
  /\ scheduleRejected
  /\ exitCode = <<>>
  /\ exitCode' = <<1>>
  /\ UNCHANGED <<loopVars, step3Vars, schedVars, rlVars, lastAnswer, sessionVars,
                 replVars, reasoning, apiKey, pureVars, streamVars, turnVars,
                 faultVars>>

\* The input of readline ends while 'Your choice: ' is pending: the callback
\* of rl.question is never called, so the promise the handler awaits stays
\* pending.
InputCloses ==
  /\ script = "step4"
  /\ pc = "await"
  /\ ~inputClosed
  /\ exitCode = <<>>
  /\ questionCallback # NoCallback
  /\ inputClosed' = TRUE
  /\ questionCallback' = NoCallback
  /\ UNCHANGED <<loopVars, step3Vars, schedVars, droppedQuestions, lastAnswer,
                 sessionVars, replVars, reasoning, mainVars, pureVars, streamVars,
                 turnVars, scheduleRejected>>

NextRunDemo ==
  \/ Next
  \/ ScheduleRejects
  \/ UnhandledRejection
  \/ InputCloses

\* The event loop runs every callback that is ready, and the operator answers
\* every question that is put.
FairRunDemo ==
  /\ WF_vars(\E i \in 1..MaxCalls + 1 : \E valid \in BOOLEAN : Validate(i, valid))
  /\ WF_vars(\E i \in 1..MaxCalls + 1 : \E n \in ToolNames :
               \E r \in SuccessResponses(n) \cup {ErrorResponse(n)} : Execute(i, r))
  /\ WF_vars(\E line \in Answers : Answer(line))
  /\ WF_vars(AllToolCallsComplete)
  /\ WF_vars(ResumeLoop)

SpecRunDemo == Init /\ [][NextRunDemo]_vars /\ FairRunDemo

\* ------------------------------------- the approval prompt on its own
\* The characters a line is made of here, and the lines the operator may enter.
Chars == {"y", "Y", "a", "A", "n", "e", "s", " "}

RECURSIVE LinesOfLen(_)
LinesOfLen(n) ==
  IF n = 0 THEN {<<>>}
  ELSE {Append(l, c) : l \in LinesOfLen(n - 1), c \in Chars}

Lines == UNION {LinesOfLen(n) : n \in 0..MaxLine} \cup {<<"y", "e", "s">>}

\* rl.question has resolved with a line, the switch has not run yet.
InitOutcome ==
  /\ InitLoop
  /\ InitReplVars
  /\ InitKey
  /\ InitPure
  /\ InitStream
  /\ InitTurnVars
  /\ InitFaults
  /\ \E line \in Lines : lastAnswer = [line |-> line, outcome |-> "none"]

\* The switch of the handler maps the line to the outcome given to onConfirm.
ReadAnswer ==
  /\ lastAnswer.outcome = "none"
  /\ lastAnswer' = [lastAnswer EXCEPT !.outcome = Outcome(lastAnswer.line)]
  /\ UNCHANGED <<loopVars, step3Vars, schedVars, rlVars, sessionVars, replVars, reasoning, extraVars>>

NextOutcome == ReadAnswer

SpecOutcome == InitOutcome /\ [][NextOutcome]_vars

\* ------------------------------------------------- step 5: the REPL
\* Step 5 has no turn loop (pc stays "repl"): its turns are driven by the
\* 'line' events of readline.
InitRepl ==
  /\ script = "step5"
  /\ pc = "main"
  /\ failure = "none"
  /\ messages = <<>>
  /\ requests = 0
  /\ toolRounds = 0
  /\ reply = <<>>
  /\ functionCalls = <<>>
  /\ thinkingText = <<>>
  /\ responseText = <<>>
  /\ answer = <<>>
  /\ executorCalls = 0
  /\ toolResponses = <<>>
  /\ toolResponseParts = <<>>
  /\ toolCalls = <<>>
  /\ autoApprove = {}
  /\ completedCalls = <<>>
  /\ schedulerFinished = FALSE
  /\ questionCallback = NoCallback
  /\ droppedQuestions = 0
  /\ confirmCount = <<>>
  /\ approvedEarlier = {}
  /\ callSignals = <<>>
  /\ lastAnswer = NoAnswer
  /\ InitReplVars
  /\ reasoning = <<>>
  /\ InitMain
  /\ InitPure
  /\ InitStream
  /\ InitTurnVars
  /\ InitFaults

\* What the line handler does with a line: nothing but a new prompt (empty
\* line, help, clear), or sendStreamingMessage(input).
LineKinds == {"command", "message"}

\* rl.on('line', ...): readline emits 'line' when no question is pending.  A
\* message goes to sendStreamingMessage, whatever else is going on.
ReplLine(kind) ==
  /\ script = "step5"
  /\ pc = "repl"
  /\ replLines < MaxReplLines
  /\ ~replQuestion
  /\ replLines' = replLines + 1
  /\ replStreams' = IF kind = "message" THEN replStreams + 1 ELSE replStreams
  /\ UNCHANGED <<replBatches, replFollowUps, replQuestion, replErrors>>
  /\ UNCHANGED <<loopVars, step3Vars, schedVars, rlVars, lastAnswer, sessionVars, reasoning, extraVars>>

\* The stream of one sendStreamingMessage ends without function calls.
ReplStreamEnds ==
  /\ script = "step5"
  /\ pc = "repl"
  /\ replStreams > 0
  /\ replStreams' = replStreams - 1
  /\ UNCHANGED <<replLines, replBatches, replFollowUps, replQuestion, replErrors>>
  /\ UNCHANGED <<loopVars, step3Vars, schedVars, rlVars, lastAnswer, sessionVars, reasoning, extraVars>>

\* A FunctionCalls event: scheduler.schedule(...) and return.
ReplSchedule ==
  /\ script = "step5"
  /\ pc = "repl"
  /\ replStreams > 0
  /\ replStreams' = replStreams - 1
  /\ replBatches' = replBatches + 1
  /\ UNCHANGED <<replLines, replFollowUps, replQuestion, replErrors>>
  /\ UNCHANGED <<loopVars, step3Vars, schedVars, rlVars, lastAnswer, sessionVars, reasoning, extraVars>>

\* The stream throws: the catch of the line handler prints the error.
ReplStreamFails ==
  /\ script = "step5"
  /\ pc = "repl"
  /\ replStreams > 0
  /\ replStreams' = replStreams - 1
  /\ replErrors' = replErrors + 1
  /\ UNCHANGED <<replLines, replBatches, replFollowUps, replQuestion>>
  /\ UNCHANGED <<loopVars, step3Vars, schedVars, rlVars, lastAnswer, sessionVars, reasoning, extraVars>>

\* onToolCallsUpdate finds a call awaiting approval: confirm('Proceed?', rl).
ReplAsk ==
  /\ script = "step5"
  /\ pc = "repl"
  /\ replBatches > 0
  /\ ~replQuestion
  /\ replQuestion' = TRUE
  /\ UNCHANGED <<replLines, replStreams, replBatches, replFollowUps, replErrors>>
  /\ UNCHANGED <<loopVars, step3Vars, schedVars, rlVars, lastAnswer, sessionVars, reasoning, extraVars>>

\* The operator's next line goes to the question, not to the line handler.
ReplAnswer ==
  /\ script = "step5"
  /\ pc = "repl"
  /\ replQuestion
  /\ replQuestion' = FALSE
  /\ UNCHANGED <<replLines, replStreams, replBatches, replFollowUps, replErrors>>
  /\ UNCHANGED <<loopVars, step3Vars, schedVars, rlVars, lastAnswer, sessionVars, reasoning, extraVars>>

\* onAllToolCallsComplete: chat.sendMessage({message: responseParts}).
ReplBatchComplete ==
  /\ script = "step5"
  /\ pc = "repl"
  /\ replBatches > 0
  /\ ~replQuestion
  /\ replBatches' = replBatches - 1
  /\ replFollowUps' = replFollowUps + 1
  /\ UNCHANGED <<replLines, replStreams, replQuestion, replErrors>>
  /\ UNCHANGED <<loopVars, step3Vars, schedVars, rlVars, lastAnswer, sessionVars, reasoning, extraVars>>

\* The follow-up request returns (its text is printed) or is rejected.
ReplFollowUpEnds ==
  /\ script = "step5"
  /\ pc = "repl"
  /\ replFollowUps > 0
  /\ replFollowUps' = replFollowUps - 1
  /\ UNCHANGED <<replLines, replStreams, replBatches, replQuestion, replErrors>>
  /\ UNCHANGED <<loopVars, step3Vars, schedVars, rlVars, lastAnswer, sessionVars, reasoning, extraVars>>

\* The line is "exit": rl.close(); process.exit(0).
ReplExit ==
  /\ script = "step5"
  /\ pc = "repl"
  /\ replLines < MaxReplLines
  /\ ~replQuestion
  /\ replLines' = replLines + 1
  /\ pc' = "done"
  /\ exitCode' = <<0>>
  /\ UNCHANGED <<replStreams, replBatches, replFollowUps, replQuestion, replErrors>>
  /\ UNCHANGED <<script, failure, messages, requests, toolRounds, reply,
                 functionCalls, thinkingText, responseText, answer, executorCalls,
                 step3Vars, schedVars, rlVars, lastAnswer, sessionVars,
                 reasoning, apiKey, pureVars, streamVars, turnVars, faultVars>>

NextRepl ==
  \/ CheckApiKey
  \/ ReplExit
  \/ \E kind \in LineKinds : ReplLine(kind)
  \/ ReplStreamEnds
  \/ ReplSchedule
  \/ ReplStreamFails
  \/ ReplAsk
  \/ ReplAnswer
  \/ ReplBatchComplete
  \/ ReplFollowUpEnds

SpecRepl == InitRepl /\ [][NextRepl]_vars

\* The three scripts side by side.
InitScripts == Init \/ InitRepl

NextScripts == Next \/ NextRepl

SpecScripts == InitScripts /\ [][NextScripts]_vars

\* --------------------------------------- step 5: one message, in detail
\* The tools of step 5 looked at here: the calculator and one core tool that
\* asks for approval.
ToolNames5 == {"calculate", "write_file"}

ThoughtsEvent(t) == [type |-> "Thoughts", text |-> t, calls |-> <<>>]
ContentEvent(t) == [type |-> "Content", text |-> t, calls |-> <<>>]
FunctionCallsEvent(fcs) == [type |-> "FunctionCalls", text |-> <<>>, calls |-> fcs]

\* The events with text the stream can bring, one of them with no text in it.
TextEvents == {ThoughtsEvent(<<"t">>), ContentEvent(<<"a">>), ContentEvent(<<>>)}

\* The value of a FunctionCalls event: one function call or more.
CallBatches ==
  UNION {[1..n -> {[name |-> t] : t \in ToolNames5}] : n \in 1..MaxCalls}

\* What the operator may answer to "Proceed? (y/n)".
Answers5 ==
  {<<"y">>, <<"Y">>, <<"y", "e", "s">>, <<"Y", "e", "S">>, <<"a">>, <<" ", "y">>}

\* The replies to the follow-up request: nothing, or one part: text, a
\* thought, a function call, or text and a function call.
FollowUpReplies ==
  {<<>>, <<ContentPart(<<"a">>)>>, <<ThoughtPart(<<"t">>)>>,
   <<CallPart([name |-> "write_file"])>>,
   <<[text |-> <<"a">>, thought |-> FALSE, functionCall |-> [name |-> "write_file"]]>>}

\* finalResponse.text: the text of the parts of the reply, thoughts left out.
RECURSIVE ResponseText(_)
ResponseText(parts) ==
  IF parts = <<>> THEN <<>>
  ELSE (IF Head(parts).thought THEN <<>> ELSE Head(parts).text)
       \o ResponseText(Tail(parts))

\* Mutant: only the letter counts.
ConfirmLetterOnly(line) == ToLowerCase(line) = <<"y">>

\* confirm(): answer.toLowerCase() === 'y' || answer.toLowerCase() === 'yes'
Confirm(line) ==
  ToLowerCase(line) = <<"y">> \/ ToLowerCase(line) = <<"y", "e", "s">>

\* approved ? onConfirm(ProceedOnce) : onConfirm(Cancel)
ConfirmOutcome(line) == IF Confirm(line) THEN "ProceedOnce" ELSE "Cancel"

\* completedCalls.flatMap(call => call.response.responseParts)
RECURSIVE FlatMapParts(_)
FlatMapParts(calls) ==
  IF calls = <<>> THEN <<>>
  ELSE AsArray(Head(calls).response) \o FlatMapParts(Tail(calls))

\* The line handler has a message in hand and is about to call
\* sendStreamingMessage; the scheduler of main has no call yet.
InitTurn ==
  /\ script = "step5"
  /\ pc = "line"
  /\ failure = "none"
  /\ messages = <<PromptPart>>
  /\ requests = 0
  /\ toolRounds = 0
  /\ reply = <<>>
  /\ functionCalls = <<>>
  /\ thinkingText = <<>>
  /\ responseText = <<>>
  /\ answer = <<>>
  /\ executorCalls = 0
  /\ toolResponses = <<>>
  /\ toolResponseParts = <<>>
  /\ toolCalls = <<>>
  /\ autoApprove = {}
  /\ completedCalls = <<>>
  /\ schedulerFinished = FALSE
  /\ questionCallback = NoCallback
  /\ droppedQuestions = 0
  /\ confirmCount = <<>>
  /\ approvedEarlier = {}
  /\ callSignals = <<>>
  /\ lastAnswer = NoAnswer
  /\ reasoning = <<>>
  /\ InitReplVars
  /\ InitKey
  /\ InitPure
  /\ InitStream
  /\ InitTurnVars
  /\ InitFaults

\* geminiClient.sendMessageStream([{text: message}], abortController.signal)
SendStreamingMessage ==
  /\ script = "step5"
  /\ pc = "line"
  /\ requests' = requests + 1
  /\ messages' = <<>>
  /\ pc' = "events"
  /\ UNCHANGED <<script, failure, toolRounds, reply, functionCalls, thinkingText,
                 responseText, answer, executorCalls, step3Vars, schedVars, rlVars,
                 lastAnswer, sessionVars, replVars, reasoning, mainVars, pureVars, streamVars, prompts, faultVars>>
  /\ spinning' = TRUE

\* The spinner after a Thoughts or Content event: the first thought with text
\* stops it (if (!hasThoughts) spinner.stop()), and so does the first content
\* with text when no thought came before (if (!hasThoughts) spinner.stop()
\* inside if (!hasContent)).  stop() clears the interval timer.
SpinnerAfterEvent(e, thoughts, content, spin) ==
  IF e.type = "Thoughts" /\ e.text # <<>>
  THEN (IF ~thoughts THEN FALSE ELSE spin)
  ELSE IF e.type = "Content" /\ e.text # <<>>
       THEN (IF ~content /\ ~thoughts THEN FALSE ELSE spin)
       ELSE spin

\* if (!hasThoughts && !hasContent) spinner.stop()
SpinnerAfterCalls(thoughts, content, spin) ==
  IF ~thoughts /\ ~content THEN FALSE ELSE spin

\* A Thoughts or Content event: its text is written, dim under "Thinking..."
\* or plain under "Assistant:"; an event without text is passed over.
StreamEvent(e) ==
  /\ script = "step5"
  /\ pc = "events"
  /\ Len(reply) < MaxParts
  /\ e \in TextEvents
  /\ reply' = Append(reply, e)
  /\ IF e.type = "Thoughts" /\ e.text # <<>>
     THEN /\ hasThoughts' = TRUE
          /\ reasoning' = Concat(reasoning, e.text)
          /\ UNCHANGED <<hasContent, answer>>
     ELSE IF e.type = "Content" /\ e.text # <<>>
          THEN /\ hasContent' = TRUE
               /\ answer' = Concat(answer, e.text)
               /\ UNCHANGED <<hasThoughts, reasoning>>
          ELSE UNCHANGED <<hasThoughts, hasContent, reasoning, answer>>
  /\ UNCHANGED <<script, pc, failure, messages, requests, toolRounds, functionCalls,
                 thinkingText, responseText, executorCalls, step3Vars, schedVars,
                 rlVars, lastAnswer, sessionVars, replVars, mainVars, pureVars, prompts, faultVars,
                 isThinking, thoughtCount, contentCount, printed>>
  /\ spinning' = SpinnerAfterEvent(e, hasThoughts, hasContent, spinning)

\* Mutant: the loop goes on consuming the stream after it has scheduled.
ScheduleKeepsStreaming(fcs) ==
  /\ script = "step5"
  /\ pc = "events"
  /\ Len(reply) < MaxParts
  /\ fcs \in CallBatches
  /\ reply' = Append(reply, FunctionCallsEvent(fcs))
  /\ functionCalls' = fcs
  /\ toolRounds' = toolRounds + 1
  /\ executorCalls' = executorCalls + 1
  /\ LET reqs == ToolRequests(fcs)
         calls == [i \in 1..Len(reqs) |-> NewToolCall(reqs[i])]
     IN /\ toolCalls' = calls
        /\ confirmCount' = [i \in 1..Len(reqs) |-> 0]
        /\ SetWorld(OnToolCallsUpdate(World, calls, toolRounds + 1))
  /\ UNCHANGED pc
  /\ UNCHANGED <<script, failure, messages, requests, thinkingText, responseText,
                 answer, step3Vars, autoApprove, lastAnswer, sessionVars, replVars,
                 reasoning, mainVars, pureVars, streamVars, prompts, faultVars>>
  /\ spinning' = SpinnerAfterCalls(hasThoughts, hasContent, spinning)

\* A FunctionCalls event: the calls are mapped to requests and given to the
\* scheduler, and sendStreamingMessage returns.
Schedule(fcs) ==
  /\ script = "step5"
  /\ pc = "events"
  /\ Len(reply) < MaxParts
  /\ fcs \in CallBatches
  /\ reply' = Append(reply, FunctionCallsEvent(fcs))
  /\ functionCalls' = fcs
  /\ toolRounds' = toolRounds + 1
  /\ executorCalls' = executorCalls + 1
  /\ LET reqs == ToolRequests(fcs)
         calls == [i \in 1..Len(reqs) |-> NewToolCall(reqs[i])]
     IN /\ toolCalls' = calls
        /\ confirmCount' = [i \in 1..Len(reqs) |-> 0]
        /\ SetWorld(OnToolCallsUpdate(World, calls, toolRounds + 1))
  /\ pc' = "batch"
  /\ UNCHANGED <<script, failure, messages, requests, thinkingText, responseText,
                 answer, step3Vars, autoApprove, lastAnswer, sessionVars, replVars,
                 reasoning, mainVars, pureVars, streamVars, prompts, faultVars>>
  /\ spinning' = SpinnerAfterCalls(hasThoughts, hasContent, spinning)

\* The stream ends without a FunctionCalls event: console.log, rl.prompt().
StreamEnds ==
  /\ script = "step5"
  /\ pc = "events"
  /\ pc' = "prompt"
  /\ UNCHANGED <<script, failure, messages, requests, toolRounds, reply,
                 functionCalls, thinkingText, responseText, answer, executorCalls,
                 step3Vars, schedVars, rlVars, lastAnswer, sessionVars, replVars,
                 reasoning, mainVars, pureVars, streamVars, spinning, faultVars>>
  /\ prompts' = prompts + 1

\* The stream throws: the catch of the line handler prints the error and prompts.
StreamThrows ==
  /\ script = "step5"
  /\ pc = "events"
  /\ pc' = "prompt"
  /\ failure' = "printed"
  /\ UNCHANGED <<script, messages, requests, toolRounds, reply,
                 functionCalls, thinkingText, responseText, answer, executorCalls,
                 step3Vars, schedVars, rlVars, lastAnswer, sessionVars, replVars,
                 reasoning, mainVars, pureVars, streamVars, spinning, faultVars>>
  /\ prompts' = prompts + 1

\* The scheduler moves call i out of validating and notifies.
TurnValidate(i, valid) ==
  /\ script = "step5"
  /\ pc = "batch"
  /\ i \in 1..Len(toolCalls)
  /\ toolCalls[i].status = "validating"
  /\ toolCalls' = [toolCalls EXCEPT ![i] = Validated(@, valid, autoApprove)]
  /\ SetWorld(OnToolCallsUpdate(World, toolCalls', toolRounds))
  /\ UNCHANGED <<loopVars, step3Vars, autoApprove, confirmCount, lastAnswer,
                 sessionVars, replVars, reasoning, extraVars>>

\* The tool of call i ends, with a result or an error, and the scheduler notifies.
TurnExecute(i, r) ==
  /\ script = "step5"
  /\ pc = "batch"
  /\ i \in 1..Len(toolCalls)
  /\ toolCalls[i].status = "executing"
  /\ r \in SuccessResponses(toolCalls[i].name) \cup {ErrorResponse(toolCalls[i].name)}
  /\ toolCalls' = [toolCalls EXCEPT ![i] = Executed(@, r)]
  /\ SetWorld(OnToolCallsUpdate(World, toolCalls', toolRounds))
  /\ UNCHANGED <<loopVars, step3Vars, autoApprove, confirmCount, lastAnswer,
                 sessionVars, replVars, reasoning, extraVars>>

\* The operator answers the question of confirm(): the handler calls onConfirm
\* with proceed-once or cancel and goes on with its loop.
TurnAnswer(line) ==
  /\ script = "step5"
  /\ questionCallback # NoCallback
  /\ LET handler == questionCallback
         i == handler.index
         outcome == ConfirmOutcome(line)
         targets == ConfirmTargets(handler, toolCalls, outcome)
         calls == [j \in 1..Len(toolCalls) |->
                     IF j \in targets THEN Confirmed(toolCalls[j], outcome)
                     ELSE toolCalls[j]]
         w0 == [World EXCEPT !.callback = NoCallback]
         w1 == IF calls # toolCalls
               THEN OnToolCallsUpdate(w0, calls, toolRounds) ELSE w0
     IN /\ toolCalls' = calls
        /\ confirmCount' = [j \in 1..Len(confirmCount) |->
                             IF j \in targets THEN confirmCount[j] + 1
                             ELSE confirmCount[j]]
        /\ autoApprove' = IF outcome = "ProceedAlwaysTool"
                             /\ toolCalls[i].status = "awaiting_approval"
                          THEN autoApprove \cup {toolCalls[i].name}
                          ELSE autoApprove
        /\ lastAnswer' = [line |-> line, outcome |-> outcome]
        /\ SetWorld(ContinueHandler(w1, handler))
  /\ UNCHANGED <<loopVars, step3Vars, sessionVars, replVars, reasoning, extraVars>>

\* onAllToolCallsComplete(completedCalls): the response parts of the batch are
\* sent as the follow-up request, chat.sendMessage({message: responseParts}).
TurnAllToolCallsComplete ==
  /\ script = "step5"
  /\ pc = "batch"
  /\ AllTerminal(toolCalls)
  /\ completedCalls' = toolCalls
  /\ messages' = FlatMapParts(toolCalls)
  /\ requests' = requests + 1
  /\ pc' = "followup"
  /\ UNCHANGED <<script, failure, toolRounds, reply, functionCalls, thinkingText,
                 responseText, answer, executorCalls, step3Vars, toolCalls,
                 autoApprove, schedulerFinished, confirmCount, rlVars, lastAnswer,
                 sessionVars, replVars, reasoning, extraVars>>

\* The follow-up request returns: finalResponse.text is printed under
\* "Assistant:", and rl.prompt().  Function calls in this reply are not looked at.
FollowUpReply(ps) ==
  /\ script = "step5"
  /\ pc = "followup"
  /\ ps \in FollowUpReplies
  /\ reply' = ps
  /\ answer' = Concat(answer, ResponseText(ps))
  /\ messages' = <<>>
  /\ pc' = "prompt"
  /\ UNCHANGED <<script, failure, requests, toolRounds, functionCalls, thinkingText,
                 responseText, executorCalls, step3Vars, schedVars, rlVars,
                 lastAnswer, sessionVars, replVars, reasoning, mainVars, pureVars, streamVars, spinning, faultVars>>
  /\ prompts' = prompts + 1

\* The follow-up request is rejected: the handler ends there, with nothing
\* printed and no prompt.
FollowUpFails ==
  /\ script = "step5"
  /\ pc = "followup"
  /\ pc' = "rejected"
  /\ failure' = "backend"
  /\ messages' = <<>>
  /\ UNCHANGED <<script, requests, toolRounds, reply, functionCalls, thinkingText,
                 responseText, answer, executorCalls, step3Vars, schedVars, rlVars,
                 lastAnswer, sessionVars, replVars, reasoning, extraVars>>

NextTurn ==
  \/ SendStreamingMessage
  \/ \E e \in TextEvents : StreamEvent(e)
  \/ \E fcs \in CallBatches : Schedule(fcs)
  \/ StreamEnds
  \/ StreamThrows
  \/ \E i \in 1..MaxCalls + 1 : \E valid \in BOOLEAN : TurnValidate(i, valid)
  \/ \E i \in 1..MaxCalls + 1 : \E n \in ToolNames5 :
       \E r \in SuccessResponses(n) \cup {ErrorResponse(n)} : TurnExecute(i, r)
  \/ \E line \in Answers5 : TurnAnswer(line)
  \/ TurnAllToolCallsComplete
  \/ \E ps \in FollowUpReplies : FollowUpReply(ps)
  \/ FollowUpFails

SpecTurn == InitTurn /\ [][NextTurn]_vars

\* ------------------------------------------------ step 1: hello world
\* main of step 1 before its check of the key.
InitStep1 ==
  /\ script = "step1"
  /\ pc = "main"
  /\ failure = "none"
  /\ messages = <<PromptPart>>
  /\ requests = 0
  /\ toolRounds = 0
  /\ reply = <<>>
  /\ functionCalls = <<>>
  /\ thinkingText = <<>>
  /\ responseText = <<>>
  /\ answer = <<>>
  /\ executorCalls = 0
  /\ toolResponses = <<>>
  /\ toolResponseParts = <<>>
  /\ toolCalls = <<>>
  /\ autoApprove = {}
  /\ completedCalls = <<>>
  /\ schedulerFinished = FALSE
  /\ questionCallback = NoCallback
  /\ droppedQuestions = 0
  /\ confirmCount = <<>>
  /\ approvedEarlier = {}
  /\ callSignals = <<>>
  /\ lastAnswer = NoAnswer
  /\ reasoning = <<>>
  /\ InitReplVars
  /\ InitMain
  /\ InitPure
  /\ InitStream
  /\ InitTurnVars
  /\ InitFaults

\* response = await chat.sendMessage({message: ...}); console.log(response.text):
\* the reply is printed, or the request is rejected and main throws.
SendMessage(ps) ==
  /\ script = "step1"
  /\ pc = "hello"
  /\ ps \in FollowUpReplies
  /\ requests' = requests + 1
  /\ messages' = <<>>
  /\ \/ /\ reply' = ps
        /\ answer' = ResponseText(ps)
        /\ pc' = "done"
        /\ UNCHANGED failure
     \/ /\ ps = <<>>
        /\ pc' = "failed"
        /\ failure' = "backend"
        /\ UNCHANGED <<reply, answer>>
  /\ UNCHANGED <<script, toolRounds, functionCalls, thinkingText, responseText,
                 executorCalls, step3Vars, schedVars, rlVars, lastAnswer,
                 sessionVars, replVars, reasoning, extraVars>>

\* ------------------------------------ step 2: streaming and thinking
\* The parts the stream of step 2 can bring: thought text and content text
\* of one and of two characters, and parts of either kind with no text.
Step2Parts ==
  {ThoughtPart(<<"t">>), ThoughtPart(<<"t", "t">>), ThoughtPart(<<>>),
   ContentPart(<<"a">>), ContentPart(<<"a", "a">>), ContentPart(<<>>)}

ThinkingHeader == <<"[THINKING]">>
ResponseHeader == <<"[RESPONSE]">>

\* The tracking variables of the loop and what it has written, as one value.
Tracking ==
  [isThinking |-> isThinking, hasContent |-> hasContent,
   thoughtCount |-> thoughtCount, contentCount |-> contentCount,
   printed |-> printed]

\* Mutant: hasContent is left as it is when thinking starts.
ThoughtSeenKeepsContent(st, text) ==
  [st EXCEPT !.printed = @ \o (IF ~st.isThinking THEN <<ThinkingHeader>> ELSE <<>>)
                           \o <<text>>,
             !.isThinking = TRUE,
             !.thoughtCount = @ + Len(text)]

\* part.thought === true: the header if the loop was not thinking, the text
\* dim, and its length counted.
ThoughtSeen(st, text) ==
  [st EXCEPT !.printed = @ \o (IF ~st.isThinking THEN <<ThinkingHeader>> ELSE <<>>)
                           \o <<text>>,
             !.isThinking = TRUE,
             !.hasContent = IF ~st.isThinking THEN FALSE ELSE @,
             !.thoughtCount = @ + Len(text)]

\* Regular content: the header if (isThinking || !hasContent), the text, and
\* its length counted.
ContentSeen(st, text) ==
  LET header == st.isThinking \/ ~st.hasContent
  IN [st EXCEPT !.printed = @ \o (IF header THEN <<ResponseHeader>> ELSE <<>>)
                              \o <<text>>,
                !.isThinking = IF header THEN FALSE ELSE @,
                !.hasContent = IF header THEN TRUE ELSE @,
                !.contentCount = @ + Len(text)]

\* if (part.text) { if (part.thought === true) ... else ... }
PartSeen(st, p) ==
  IF p.text = <<>> THEN st
  ELSE IF p.thought THEN ThoughtSeen(st, p.text)
       ELSE ContentSeen(st, p.text)

\* main of step 2 before its check of the key.
InitStep2 ==
  /\ script = "step2"
  /\ pc = "main"
  /\ failure = "none"
  /\ messages = <<PromptPart>>
  /\ requests = 0
  /\ toolRounds = 0
  /\ reply = <<>>
  /\ functionCalls = <<>>
  /\ thinkingText = <<>>
  /\ responseText = <<>>
  /\ answer = <<>>
  /\ executorCalls = 0
  /\ toolResponses = <<>>
  /\ toolResponseParts = <<>>
  /\ toolCalls = <<>>
  /\ autoApprove = {}
  /\ completedCalls = <<>>
  /\ schedulerFinished = FALSE
  /\ questionCallback = NoCallback
  /\ droppedQuestions = 0
  /\ confirmCount = <<>>
  /\ approvedEarlier = {}
  /\ callSignals = <<>>
  /\ lastAnswer = NoAnswer
  /\ reasoning = <<>>
  /\ InitReplVars
  /\ InitMain
  /\ InitPure
  /\ InitStream
  /\ InitTurnVars
  /\ InitFaults

\* stream = await chat.sendMessageStream({message: prompt, ...})
AskStream ==
  /\ script = "step2"
  /\ pc = "ask"
  /\ requests' = requests + 1
  /\ messages' = <<>>
  /\ \/ pc' = "parts" /\ UNCHANGED failure
     \/ pc' = "failed" /\ failure' = "backend"
  /\ UNCHANGED <<script, toolRounds, reply, functionCalls, thinkingText,
                 responseText, answer, executorCalls, step3Vars, schedVars, rlVars,
                 lastAnswer, sessionVars, replVars, reasoning, extraVars>>

\* One part of the for-await loop of step 2.
TrackPart(p) ==
  /\ script = "step2"
  /\ pc = "parts"
  /\ Len(reply) < MaxParts
  /\ p \in Step2Parts
  /\ reply' = Append(reply, p)
  /\ LET st == PartSeen(Tracking, p)
     IN /\ isThinking' = st.isThinking
        /\ hasContent' = st.hasContent
        /\ thoughtCount' = st.thoughtCount
        /\ contentCount' = st.contentCount
        /\ printed' = st.printed
  /\ UNCHANGED <<script, pc, failure, messages, requests, toolRounds,
                 functionCalls, thinkingText, responseText, answer, executorCalls,
                 step3Vars, schedVars, rlVars, lastAnswer, sessionVars, replVars,
                 reasoning, mainVars, pureVars, hasThoughts, turnVars, faultVars>>

\* The stream ends ("Streaming complete!" and the two counts) or throws.
TrackingEnds ==
  /\ script = "step2"
  /\ pc = "parts"
  /\ \/ pc' = "done" /\ UNCHANGED failure
     \/ pc' = "failed" /\ failure' = "backend"
  /\ UNCHANGED <<script, messages, requests, toolRounds, reply,
                 functionCalls, thinkingText, responseText, answer, executorCalls,
                 step3Vars, schedVars, rlVars, lastAnswer, sessionVars, replVars,
                 reasoning, extraVars>>

NextStep2 ==
  \/ CheckApiKey
  \/ ProcessExit
  \/ AskStream
  \/ \E p \in Step2Parts : TrackPart(p)
  \/ TrackingEnds

SpecStep2 == InitStep2 /\ [][NextStep2]_vars

\* ------------------------------------------------ the five scripts
InitMains == InitStep1 \/ InitStep2 \/ InitScripts

NextMains ==
  \/ NextScripts
  \/ NextStep2
  \/ \E ps \in FollowUpReplies : SendMessage(ps)

SpecMains == InitMains /\ [][NextMains]_vars

\* ------------------------------------------- pure functions, alone
\* Everything but the function under study at rest: no script is running.
InitIdle ==
  /\ script = "none"
  /\ pc = "apply"
  /\ failure = "none"
  /\ messages = <<>>
  /\ requests = 0
  /\ toolRounds = 0
  /\ reply = <<>>
  /\ functionCalls = <<>>
  /\ thinkingText = <<>>
  /\ responseText = <<>>
  /\ answer = <<>>
  /\ executorCalls = 0
  /\ toolResponses = <<>>
  /\ toolResponseParts = <<>>
  /\ toolCalls = <<>>
  /\ autoApprove = {}
  /\ completedCalls = <<>>
  /\ schedulerFinished = FALSE
  /\ questionCallback = NoCallback
  /\ droppedQuestions = 0
  /\ confirmCount = <<>>
  /\ approvedEarlier = {}
  /\ callSignals = <<>>
  /\ lastAnswer = NoAnswer
  /\ reasoning = <<>>
  /\ InitReplVars
  /\ InitKey
  /\ InitStream
  /\ InitTurnVars
  /\ InitFaults

\* An optional value of JavaScript: undefined, or the value.
Undefined == <<>>
Defined(v) == <<v>>

\* The function calls a reply can carry: id absent, the empty string or a
\* string; args absent, the empty mapping or a mapping with an entry.
FunctionCallSet ==
  [name : ToolNames5,
   id : {Undefined, Defined(""), Defined("call-1")},
   args : {Undefined, Defined({}), Defined({<<"expression", "2 + 2">>})}]

\* Date.now()
Clock == {1, 2}

\* The scripts that build tool-call requests.
RequestScripts == {"step3", "step4", "step5"}

\* `${fc.name}-${Date.now()}`
GeneratedId(name, now) == name \o "-" \o ToString(now)

\* a ?? b: b when a is undefined.
Coalesce(a, b) == IF a = Undefined THEN b ELSE a[1]

\* a || b: b when a is undefined or the empty string.
OrElse(a, b) == IF a = Undefined \/ a = Defined("") THEN b ELSE a[1]

\* The request made of a function call. Steps 3 and 4:
\*   {callId: fc.id ?? `${fc.name}-${Date.now()}`, name: fc.name,
\*    args: fc.args ?? {}}
\* step 5:
\*   {callId: fc.id || `${fc.name}-${Date.now()}`, name: fc.name,
\*    args: fc.args}
ToolCallRequest(s, fc, now) ==
  IF s = "step5"
  THEN [callId |-> OrElse(fc.id, GeneratedId(fc.name, now)),
        name |-> fc.name,
        args |-> fc.args]
  ELSE [callId |-> Coalesce(fc.id, GeneratedId(fc.name, now)),
        name |-> fc.name,
        args |-> Defined(Coalesce(fc.args, {}))]

InitRequest ==
  /\ InitIdle
  /\ calculation = NoCalculation
  /\ \E s \in RequestScripts, fc \in FunctionCallSet, now \in Clock :
       request = [script |-> s, fc |-> Defined(fc), now |-> now,
                  made |-> Undefined]

\* functionCalls.map(fc => ({callId, name, args, ...})) for one call.
MakeRequest ==
  /\ pc = "apply"
  /\ request # NoRequest
  /\ request.made = Undefined
  /\ request' = [request EXCEPT
       !.made = Defined(ToolCallRequest(request.script, request.fc[1],
                                        request.now))]
  /\ UNCHANGED <<loopVars, step3Vars, schedVars, rlVars, lastAnswer,
                 sessionVars, replVars, reasoning, mainVars, calculation,
                 streamVars, turnVars, faultVars>>

NextRequest == MakeRequest

SpecRequest == InitRequest /\ [][NextRequest]_vars

\* ---- the requests of one batch
\* The function calls of one reply: the backend gives call i the id "call-i"
\* or none, so the ids it supplies are distinct.
BatchCalls(n) ==
  {fcs \in [1..n -> [name : ToolNames5,
                     id : {Undefined} \cup {Defined("call-" \o ToString(i)) : i \in 1..n},
                     args : {Defined({})}]] :
     \A i \in 1..n : fcs[i].id \in {Undefined, Defined("call-" \o ToString(i))}}

\* What Date.now() gives at each call of the map callback: the clock does not
\* go back, and may stand still.
ClockReadings(n) ==
  {nows \in [1..n -> Clock] : \A i \in 1..n - 1 : nows[i] <= nows[i + 1]}

\* functionCalls.map(fc => ({callId, name, args, ...}))
ToolCallRequests(s, fcs, nows) ==
  [i \in 1..Len(fcs) |-> ToolCallRequest(s, fcs[i], nows[i])]

InitBatch ==
  /\ InitIdle
  /\ calculation = NoCalculation
  /\ \E s \in RequestScripts, n \in 1..MaxCalls :
       \E fcs \in BatchCalls(n), nows \in ClockReadings(n) :
         request = [script |-> s, fcs |-> fcs, nows |-> nows, made |-> Undefined]

\* The map over the function calls of one reply.
MapFunctionCalls ==
  /\ pc = "apply"
  /\ request # NoRequest
  /\ request.made = Undefined
  /\ request' = [request EXCEPT
       !.made = Defined(ToolCallRequests(request.script, request.fcs,
                                         request.nows))]
  /\ UNCHANGED <<loopVars, step3Vars, schedVars, rlVars, lastAnswer,
                 sessionVars, replVars, reasoning, mainVars, calculation,
                 streamVars, turnVars, faultVars>>

NextBatch == MapFunctionCalls

SpecBatch == InitBatch /\ [][NextBatch]_vars

\* ------------------------------------------------ the calculator, alone
\* Text is a sequence of characters.  The examples the function declaration
\* of calculate gives for its parameter.
AdvertisedExamples ==
  {<<"2", " ", "+", " ", "2">>,
   <<"s", "q", "r", "t", "(", "1", "6", ")">>,
   <<"p", "i", " ", "*", " ", "r", "^", "2">>}

MaxExpr == 3

\* The characters expressions are made of here: a digit, two operators, the
\* parentheses, the space and a letter.
ExprChars == {"2", "+", "*", "(", ")", " ", "r"}

\* The expressions execute is called with: every text of up to MaxExpr
\* characters, and the advertised examples.
Expressions ==
  UNION {[1..n -> ExprChars] : n \in 0..MaxExpr} \cup AdvertisedExamples

Digits == {"0", "1", "2", "3", "4", "5", "6", "7", "8", "9"}

\* The characters /[^0-9+\-*/().\s]/g leaves in place.
AllowedChars == Digits \cup {"+", "-", "*", "/", "(", ")", ".", " "}

DigitValue(c) ==
  CASE c = "0" -> 0 [] c = "1" -> 1 [] c = "2" -> 2 [] c = "3" -> 3
    [] c = "4" -> 4 [] c = "5" -> 5 [] c = "6" -> 6 [] c = "7" -> 7
    [] c = "8" -> 8 [] OTHER -> 9

\* expr.replace(/[^0-9+\-*/().\s]/g, '')
Cleaned(expr) == SelectSeq(expr, LAMBDA c : c \in AllowedChars)

\* ---- the JavaScript of 'return (' + cleaned + ')': tokens
Token(t, v) == [t |-> t, v |-> v]

\* The end of the run of digits that starts at i.
RECURSIVE DigitsEnd(_, _)
DigitsEnd(cs, i) ==
  IF i <= Len(cs) /\ cs[i] \in Digits THEN DigitsEnd(cs, i + 1) ELSE i

\* The value of the digits cs[i..j-1], after value acc.
RECURSIVE NumberValue(_, _, _, _)
NumberValue(cs, i, j, acc) ==
  IF i >= j THEN acc
  ELSE NumberValue(cs, i + 1, j, acc * 10 + DigitValue(cs[i]))

\* The tokens of the characters from the i-th on, longest match first: a run
\* of digits is a number (with a leading zero, an error of strict mode), ++
\* and ** are one token each, space separates.  The characters - / . are not
\* part of the expressions drawn here and are left as tokens of their own
\* that no rule below takes.
RECURSIVE Tokenize(_, _)
Tokenize(cs, i) ==
  IF i > Len(cs) THEN <<>>
  ELSE LET c == cs[i]
           two == IF i < Len(cs) THEN cs[i + 1] ELSE "eof"
       IN CASE c = " " -> Tokenize(cs, i + 1)
            [] c \in Digits ->
                 LET j == DigitsEnd(cs, i)
                 IN <<IF c = "0" /\ j > i + 1 THEN Token("bad", 0)
                      ELSE Token("num", NumberValue(cs, i, j, 0))>>
                    \o Tokenize(cs, j)
            [] c = "+" /\ two = "+" -> <<Token("++", 0)>> \o Tokenize(cs, i + 2)
            [] c = "*" /\ two = "*" -> <<Token("**", 0)>> \o Tokenize(cs, i + 2)
            [] OTHER -> <<Token(c, 0)>> \o Tokenize(cs, i + 1)

\* ---- the JavaScript of 'return (' + cleaned + ')': the expression
\* What a rule makes of the tokens from a position on: whether it matched,
\* where it stopped, the value, and whether a call is part of what it matched.
Parsed(pos, val, called) == [ok |-> TRUE, pos |-> pos, val |-> val, called |-> called]
NoParse == [ok |-> FALSE, pos |-> 0, val |-> 0, called |-> FALSE]

Tok(ts, i) == IF i <= Len(ts) THEN ts[i].t ELSE "eof"

RECURSIVE ParseAdditive(_, _)
RECURSIVE ParseAdditiveRest(_, _)
RECURSIVE ParseMultiplicative(_, _)
RECURSIVE ParseMultiplicativeRest(_, _)
RECURSIVE ParseExponentiation(_, _)
RECURSIVE ParseUnary(_, _)
RECURSIVE ParseCallRest(_, _)
RECURSIVE ParsePrimary(_, _)

\* PrimaryExpression: a number, or ( Expression ).
ParsePrimary(ts, i) ==
  CASE Tok(ts, i) = "num" -> Parsed(i + 1, ts[i].v, FALSE)
    [] Tok(ts, i) = "(" ->
         LET e == ParseAdditive(ts, i + 1)
         IN IF e.ok /\ Tok(ts, e.pos) = ")"
            THEN Parsed(e.pos + 1, e.val, e.called)
            ELSE NoParse
    [] OTHER -> NoParse

\* CallExpression: what was matched, followed by any number of argument
\* lists, each () or ( Expression ).
ParseCallRest(ts, p) ==
  IF ~p.ok THEN NoParse
  ELSE IF Tok(ts, p.pos) # "(" THEN p
  ELSE IF Tok(ts, p.pos + 1) = ")"
       THEN ParseCallRest(ts, Parsed(p.pos + 2, 0, TRUE))
       ELSE LET a == ParseAdditive(ts, p.pos + 1)
            IN IF a.ok /\ Tok(ts, a.pos) = ")"
               THEN ParseCallRest(ts, Parsed(a.pos + 1, 0, TRUE))
               ELSE NoParse

\* UnaryExpression: + UnaryExpression, or a call or primary expression.
ParseUnary(ts, i) ==
  IF Tok(ts, i) = "+"
  THEN ParseUnary(ts, i + 1)
  ELSE ParseCallRest(ts, ParsePrimary(ts, i))

\* ExponentiationExpression: a unary expression, or a call or primary
\* expression ** ExponentiationExpression (a unary expression cannot stand
\* to the left of **).
ParseExponentiation(ts, i) ==
  IF Tok(ts, i) = "+"
  THEN ParseUnary(ts, i)
  ELSE LET b == ParseCallRest(ts, ParsePrimary(ts, i))
       IN IF b.ok /\ Tok(ts, b.pos) = "**"
          THEN LET e == ParseExponentiation(ts, b.pos + 1)
               IN IF e.ok
                  THEN Parsed(e.pos, IF b.called \/ e.called THEN 0 ELSE b.val ^ e.val,
                              b.called \/ e.called)
                  ELSE NoParse
          ELSE b

ParseMultiplicativeRest(ts, l) ==
  IF ~l.ok THEN NoParse
  ELSE IF Tok(ts, l.pos) # "*" THEN l
  ELSE LET r == ParseExponentiation(ts, l.pos + 1)
       IN IF r.ok
          THEN ParseMultiplicativeRest(ts,
                 Parsed(r.pos, l.val * r.val, l.called \/ r.called))
          ELSE NoParse

ParseMultiplicative(ts, i) ==
  ParseMultiplicativeRest(ts, ParseExponentiation(ts, i))

ParseAdditiveRest(ts, l) ==
  IF ~l.ok THEN NoParse
  ELSE IF Tok(ts, l.pos) # "+" THEN l
  ELSE LET r == ParseMultiplicative(ts, l.pos + 1)
       IN IF r.ok
          THEN ParseAdditiveRest(ts,
                 Parsed(r.pos, l.val + r.val, l.called \/ r.called))
          ELSE NoParse

ParseAdditive(ts, i) == ParseAdditiveRest(ts, ParseMultiplicative(ts, i))

Thrown(message) == [thrown |-> TRUE, message |-> message, value |-> 0]
Returned(value) == [thrown |-> FALSE, message |-> "", value |-> value]

\* Function('"use strict"; return (' + cleaned + ')')(): a text that is not
\* one expression in parentheses is a SyntaxError of the constructor; a call
\* in it is a call of a number, a TypeError when run; otherwise its value.
RunFunction(cleaned) ==
  LET ts == <<Token("(", 0)>> \o Tokenize(cleaned, 1) \o <<Token(")", 0)>>
      e == ParseAdditive(ts, 1)
  IN IF ~e.ok \/ e.pos # Len(ts) + 1 THEN Thrown("SyntaxError")
     ELSE IF e.called THEN Thrown("TypeError")
     ELSE Returned(e.val)

\* CalculatorTool.evaluateExpression(expr)
EvaluateExpression(expr) ==
  IF Cleaned(expr) # expr THEN Thrown("Invalid characters in expression")
  ELSE RunFunction(Cleaned(expr))

\* `${expression} = ${result}`
ValueText(expression, value) ==
  [form |-> "=", expression |-> expression, detail |-> ToString(value)]

\* `Error calculating ${expression}: ${error.message}`
ErrorText(expression, message) ==
  [form |-> "Error calculating", expression |-> expression, detail |-> message]

ToolResult(text) == [outcome |-> "returned", llmContent |-> text]
\* Mutant: execute without its try and catch.
CalculatorExecuteWithoutCatch(expression) ==
  LET r == EvaluateExpression(expression)
  IN IF r.thrown THEN [outcome |-> "thrown", llmContent |-> ErrorText(<<>>, r.message)]
     ELSE ToolResult(ValueText(expression, r.value))

\* CalculatorTool.execute({expression})
CalculatorExecute(expression) ==
  LET r == EvaluateExpression(expression)
  IN IF r.thrown THEN ToolResult(ErrorText(expression, r.message))
     ELSE ToolResult(ValueText(expression, r.value))

InitCalculate ==
  /\ InitIdle
  /\ request = NoRequest
  /\ \E e \in Expressions :
       calculation = [expression |-> Defined(e), result |-> Undefined]

\* await tool.execute({expression})
Calculate ==
  /\ pc = "apply"
  /\ calculation # NoCalculation
  /\ calculation.result = Undefined
  /\ calculation' = [calculation EXCEPT
       !.result = Defined(CalculatorExecute(calculation.expression[1]))]
  /\ UNCHANGED <<loopVars, step3Vars, schedVars, rlVars, lastAnswer,
                 sessionVars, replVars, reasoning, mainVars, request,
                 streamVars, turnVars, faultVars>>

NextCalculate == Calculate

SpecCalculate == InitCalculate /\ [][NextCalculate]_vars

\* The calculator alone, and as a tool of the scheduler of step 5.
InitCalculator == InitCalculate \/ InitTurn

NextCalculator == NextCalculate \/ NextTurn

SpecCalculator == InitCalculator /\ [][NextCalculator]_vars

\* ============================================================ properties
\* The content text of a reply: the text of its parts that are not thoughts.
RECURSIVE ContentText(_)
ContentText(parts) ==
  IF parts = <<>> THEN <<>>
  ELSE (IF Head(parts).thought THEN <<>> ELSE Head(parts).text)
       \o ContentText(Tail(parts))

\* The parts of a batch's payloads, call after call.
RECURSIVE FlattenParts(_)
FlattenParts(rps) ==
  IF rps = <<>> THEN <<>> ELSE Head(rps).parts \o FlattenParts(Tail(rps))

CallCount(parts) == Cardinality({i \in 1..Len(parts) : HasCall(parts[i])})

\* a is s without its leading and trailing whitespace.
IsTrimOf(a, s) ==
  /\ a = <<>> \/ (~IsSpace(a[1]) /\ ~IsSpace(a[Len(a)]))
  /\ \E i \in 0..Len(s) :
       /\ i + Len(a) <= Len(s)
       /\ SubSeq(s, i + 1, i + Len(a)) = a
       /\ \A k \in 1..Len(s) : (k <= i \/ k > i + Len(a)) => IsSpace(s[k])

\* C1 as stated: a round whose reply carries no function call ends the loop
\* with exactly the reply's content text as the answer, nothing added or
\* removed, and without a call of the tool executor.
C1_AnswerIsContentText ==
  pc = "done" => answer = ContentText(reply) /\ executorCalls = 0

\* C1, amended: in a round whose reply carries no function call the tool
\* executor is not called and the answer is the reply's content text (thought
\* text left out): as it is in runDemo, with leading and trailing whitespace
\* removed in runChatWithTool.
C1_AnswerIsContentTextTrimmed ==
  pc = "done" =>
    /\ CallCount(reply) = 0
    /\ executorCalls = 0
    /\ script = "step4" => answer = ContentText(reply)
    /\ script = "step3" => IsTrimOf(answer, ContentText(reply))

\* A final round of runChatWithTool with a thought, whitespace and content.
C1_Witness ==
  /\ pc = "done"
  /\ script = "step3"
  /\ answer = <<"a">>
  /\ ContentText(reply) = <<"a", " ">>
  /\ \E i \in 1..Len(reply) : reply[i].thought

\* C2: the loop ends normally only in a round whose function-call list is
\* empty; a round with function calls that gets through its batch is followed
\* by another request to the backend.
C2_ExitOnlyWithoutCalls ==
  [][/\ pc' = "done" => functionCalls' = <<>> /\ CallCount(reply') = 0
     /\ (pc \in {"tools", "await"} /\ pc' \notin {pc, "failed"}) => pc' = "send"
     /\ (pc = "send" /\ pc' # "send") => requests' = requests + 1]_vars

\* The loop has ended after a round with function calls and a further request.
C2_Witness == pc = "done" /\ toolRounds = 2 /\ requests = 3

\* C3: a run that ends has made one request more than it had rounds with
\* function calls, and no run is ever further ahead or behind than that.
C3_RequestCount ==
  /\ pc = "done" => requests = toolRounds + 1
  /\ toolRounds <= requests
  /\ requests <= toolRounds + 1

\* runDemo has ended after two requests and one round with function calls.
C3_Witness ==
  /\ pc = "done"
  /\ script = "step4"
  /\ requests = 2
  /\ toolRounds = 1

\* The responses of the batch of the round, in batch order.
BatchResponses ==
  IF script = "step3" THEN toolResponses
  ELSE [i \in 1..Len(toolCalls) |-> toolCalls[i].response]

\* How call i of the batch ended.
BatchStatus(i) ==
  IF script = "step3"
  THEN (IF toolResponses[i] = ErrorResponse(functionCalls[i].name)
        THEN "errored" ELSE "completed")
  ELSE toolCalls[i].status

IsIn(part, parts) == \E j \in 1..Len(parts) : parts[j] = part

\* The loop has gone through a round with function calls to its end and is
\* about to send the next request.
RoundDone == pc = "send" /\ toolRounds > 0

\* C4: runDemo leaves its wait for the batch, and sends the next request, only
\* when the scheduler has reported the whole batch and every call of it is
\* terminal; while a call of the batch is not terminal, no status update
\* makes the batch reported and the loop stays in its wait.
C4_ResumeOnlyAfterComplete ==
  [][/\ (pc = "await" /\ pc' # "await") =>
          /\ schedulerFinished
          /\ toolCalls # <<>>
          /\ AllTerminal(toolCalls)
          /\ completedCalls = toolCalls
     /\ (pc' = "await" /\ ~AllTerminal(toolCalls')) => ~schedulerFinished'
     /\ (script = "step4" /\ requests' = requests + 1 /\ toolRounds > 0) =>
          schedulerFinished /\ AllTerminal(toolCalls)]_vars

\* runDemo is about to send the next request after a batch of two calls that
\* became terminal at different moments and in different ways.
C4_Witness ==
  /\ script = "step4"
  /\ RoundDone
  /\ schedulerFinished
  /\ Len(completedCalls) = 2
  /\ completedCalls[1].status # completedCalls[2].status

\* C5: after a round with function calls the input of the next request is the
\* parts of the responses of the batch, call after call in batch order and
\* each call's parts in their order, and the prompt is not among them.
C5_NextInputIsBatchParts ==
  RoundDone =>
    /\ messages = FlattenParts(BatchResponses)
    /\ ~IsIn(PromptPart, messages)

\* The next input of runDemo holds the two parts of a read_file response and
\* then the part of a write_file response.
C5_Witness ==
  /\ script = "step4"
  /\ RoundDone
  /\ messages = <<FunctionResponse("read_file", "output"), InlineData("read_file"),
                  FunctionResponse("write_file", "output")>>

\* C6: a call that ended cancelled or errored has its payload in the next
\* input, and the loop goes on to the next request: a finished batch leads to
\* the send, and no error or cancellation of a tool ends the run.
C6_FailedCallsStillReported ==
  /\ RoundDone =>
       \A i \in 1..Len(BatchResponses) :
         BatchStatus(i) \in {"cancelled", "errored"} =>
           /\ BatchResponses[i] # NoResponse
           /\ \A k \in 1..Len(BatchResponses[i].parts) :
                IsIn(BatchResponses[i].parts[k], messages)
  /\ (script = "step4" /\ schedulerFinished) => pc \in {"await", "send"}
  /\ (script = "step4" /\ pc = "failed") => failure = "backend"
  /\ (pc = "failed" /\ failure = "TypeError") =>
       /\ toolResponses # <<>>
       /\ toolResponses[Len(toolResponses)] # ErrorResponse(functionCalls[Len(toolResponses)].name)

\* The next input of runDemo holds the payload of a cancelled call and that of
\* an errored call.
C6_Witness ==
  /\ script = "step4"
  /\ RoundDone
  /\ messages = <<FunctionResponse("write_file", "cancelled"),
                  FunctionResponse("read_file", "error")>>

C8_ConfirmAtMostOnce == \A i \in 1..Len(confirmCount) : confirmCount[i] <= 1

\* Two calls of a batch have been confirmed, once each, although a handler
\* asked again while a question was pending.
C8_Witness ==
  /\ Len(confirmCount) = 2
  /\ confirmCount[1] = 1
  /\ confirmCount[2] = 1
  /\ droppedQuestions >= 1

\* The handlers that have called rl.question and not got an answer.
PendingPrompts == (IF questionCallback # NoCallback THEN 1 ELSE 0) + droppedQuestions

\* C9: at no time are two approval prompts of rl.question pending.
C9_OnePromptPending == PendingPrompts <= 1

\* C10 as stated: "y" alone gives proceed-once, "a" alone proceed-always, and
\* every other line gives cancel.
C10_LiteralTokens ==
  lastAnswer.outcome # "none" =>
    lastAnswer.outcome =
      (IF lastAnswer.line = <<"y">> THEN "ProceedOnce"
       ELSE IF lastAnswer.line = <<"a">> THEN "ProceedAlwaysTool"
       ELSE "Cancel")

\* C10: a line that is "y" or "Y" gives proceed-once, a line that is "a" or
\* "A" gives proceed-always for the tool, and every other line, "yes", the
\* empty line and a line with whitespace around the letter among them, gives
\* cancel.
C10_TokensInEitherCase ==
  lastAnswer.outcome # "none" =>
    /\ lastAnswer.outcome = "ProceedOnce" <=> lastAnswer.line \in {<<"y">>, <<"Y">>}
    /\ lastAnswer.outcome = "ProceedAlwaysTool" <=> lastAnswer.line \in {<<"a">>, <<"A">>}
    /\ lastAnswer.outcome = "Cancel" <=> lastAnswer.line \notin {<<"y">>, <<"Y">>, <<"a">>, <<"A">>}
    /\ lastAnswer.line \in {<<"y", "e", "s">>, <<>>, <<" ", "y">>, <<"y", " ">>} =>
         lastAnswer.outcome = "Cancel"

\* The line "Y" has been read and has given proceed-once.
C10_Witness == lastAnswer = [line |-> <<"Y">>, outcome |-> "ProceedOnce"]

\* C11: a tool the operator answered "a" to in an earlier batch of the session
\* is not asked about again: no call of that name is awaiting approval.
C11_ApprovedToolSkipsPrompt ==
  \A i \in 1..Len(toolCalls) :
    toolCalls[i].name \in approvedEarlier => toolCalls[i].status # "awaiting_approval"

\* C12: the step in which a proceed-always decision is taken changes no call of
\* the batch but the one decided: a sibling awaiting approval stays so, a
\* sibling executing stays so.  And a call that awaits approval is asked about,
\* whether or not its tool has been approved for good in the meantime.
C12_AlwaysLeavesSiblingsAlone ==
  [][/\ (pc = "await" /\ pc' = "await" /\ autoApprove' # autoApprove) =>
          \A j \in 1..Len(toolCalls) :
            j # questionCallback.index => toolCalls'[j] = toolCalls[j]
     /\ (pc' = "await" /\ \E j \in 1..Len(toolCalls') :
                            toolCalls'[j].status = "awaiting_approval") =>
          /\ questionCallback' # NoCallback
          /\ toolCalls'[questionCallback'.index].status = "awaiting_approval"]_vars

\* The operator has answered "a" for write_file, and a second write_file call
\* of the batch, awaiting approval since before, is the one now asked about.
C12_Witness ==
  /\ pc = "await"
  /\ autoApprove = {"write_file"}
  /\ \E j \in 1..Len(toolCalls) :
       /\ toolCalls[j].name = "write_file"
       /\ toolCalls[j].status = "awaiting_approval"
       /\ questionCallback.index = j

\* C13: a call whose decision was cancel is cancelled, its tool has not run,
\* and its response is the cancellation payload; it became cancelled from
\* awaiting approval, by the answer to its prompt, and does not change again;
\* the batch result holds it, and the next input holds its payload.
C13_CancelledNeverRuns ==
  [][/\ \A i \in 1..Len(toolCalls') :
          /\ toolCalls'[i].decision = "Cancel" <=> toolCalls'[i].status = "cancelled"
          /\ toolCalls'[i].status = "cancelled" =>
               /\ toolCalls'[i].executions = 0
               /\ toolCalls'[i].response = CancelResponse(toolCalls'[i].name)
     /\ (pc = "await" /\ pc' = "await") =>
          \A i \in 1..Len(toolCalls) :
            /\ toolCalls[i].status = "cancelled" => toolCalls'[i] = toolCalls[i]
            /\ (toolCalls[i].status # "cancelled" /\ toolCalls'[i].status = "cancelled") =>
                 /\ toolCalls[i].status = "awaiting_approval"
                 /\ questionCallback.index = i
     /\ (script = "step4" /\ schedulerFinished') =>
          \A i \in 1..Len(toolCalls') :
            toolCalls'[i].status = "cancelled" =>
              /\ i <= Len(completedCalls')
              /\ completedCalls'[i] = toolCalls'[i]
     /\ (script = "step4" /\ pc' = "send" /\ toolRounds' > 0) =>
          \A i \in 1..Len(toolCalls') :
            toolCalls'[i].status = "cancelled" =>
              IsIn(FunctionResponse(toolCalls'[i].name, "cancelled"), messages')]_vars

\* The one call of a batch was cancelled at its prompt, and the next input is
\* its cancellation payload.
C13_Witness ==
  /\ script = "step4"
  /\ RoundDone
  /\ Len(toolCalls) = 1
  /\ toolCalls[1].decision = "Cancel"
  /\ toolCalls[1].status = "cancelled"
  /\ toolCalls[1].executions = 0
  /\ messages = <<FunctionResponse("write_file", "cancelled")>>

\* Chat requests of the session in flight in the step 5 REPL.
InFlight == replStreams + replFollowUps

\* C14: at no time are two chat requests of the session in flight.
C14_OneRequestInFlight == InFlight <= 1

\* C15: while the operator is asked about a call, no call earlier in the batch
\* is awaiting approval: the earlier of two calls that need approval is asked
\* about and decided before the later one is asked about.
C15_PromptsInBatchOrder ==
  (pc = "await" /\ questionCallback # NoCallback) =>
    \A i \in 1..(questionCallback.index - 1) :
      toolCalls[i].status # "awaiting_approval"

\* C16: a failure of one call of a batch does not end the run and does not
\* keep the other calls of the batch from being executed: the run fails only
\* when the backend does, and once runChatWithTool is through with a batch the
\* executor has been called for every function call of it.
C16_ErrorsSpareSiblings ==
  /\ pc = "failed" => failure = "backend"
  /\ (script = "step3" /\ functionCalls # <<>> /\ pc \notin {"stream", "tools"}) =>
       executorCalls = Len(functionCalls)

\* C17: a failure of the backend ends the turn: the loops of steps 3 and 4 are
\* left for good, with no further request, no tool executed and no batch
\* scheduled; in the REPL of step 5 the failed stream is gone, the error is
\* printed, and no request or batch is started in its place.
C17_BackendFailureEndsTurn ==
  [][/\ failure' = "backend" => pc' = "failed"
     /\ failure = "backend" =>
          /\ pc' = "failed"
          /\ requests' = requests
          /\ toolRounds' = toolRounds
          /\ executorCalls' = executorCalls
          /\ toolCalls' = toolCalls
     /\ replErrors' # replErrors =>
          /\ replErrors' = replErrors + 1
          /\ replStreams' = replStreams - 1
          /\ replFollowUps' = replFollowUps
          /\ replBatches' = replBatches]_vars

\* The stream of the second request of runDemo has failed, after a round with
\* function calls.
C17_Witness ==
  /\ script = "step4"
  /\ pc = "failed"
  /\ failure = "backend"
  /\ requests = 2
  /\ toolRounds = 1

\* C19: the calls of a batch are all given one and the same cancellation token.
C19_OneTokenPerBatch ==
  \A i, j \in 1..Len(callSignals) : callSignals[i] = callSignals[j]

\* C20: the loop has no count of its own.  It ends only from a stream that
\* brought no function call, in that very round; whatever the number of rounds
\* so far, a stream that brought function calls can only go on to its batch,
\* never to the end, and a loop that is about to send can send.
C20_NoIterationLimit ==
  /\ pc = "send" => ENABLED Send
  /\ (pc = "stream" /\ functionCalls # <<>>) =>
       /\ ~ENABLED FinalResponse
       /\ script = "step3" => ENABLED StartTools
       /\ script = "step4" => ENABLED StartSchedule
  /\ (pc = "stream" /\ functionCalls = <<>>) =>
       /\ ENABLED FinalResponse
       /\ ~ENABLED StartTools
       /\ ~ENABLED StartSchedule
  /\ pc = "done" => functionCalls = <<>> /\ requests = toolRounds + 1

\* runChatWithTool is in its third round after two rounds with function calls
\* and may still be given more.
C20_Witness ==
  /\ script = "step3"
  /\ pc = "stream"
  /\ requests = 3
  /\ toolRounds = 2
  /\ reply = <<>>

\* All the text of a reply, thought or not.
RECURSIVE AllText(_)
AllText(parts) ==
  IF parts = <<>> THEN <<>> ELSE Head(parts).text \o AllText(Tail(parts))

\* The function calls of a reply, in the order of its parts.
RECURSIVE CallsOf(_)
CallsOf(parts) ==
  IF parts = <<>> THEN <<>>
  ELSE (IF HasCall(Head(parts)) THEN <<Head(parts).functionCall>> ELSE <<>>)
       \o CallsOf(Tail(parts))

\* C22: a reply with no text and no function call ends the loop with the
\* empty answer, and is no failure: a stream that has brought nothing can end
\* as the final response, and the loop fails out of a stream only when the
\* backend does.  A reply with function calls and no text goes on to its
\* batch, and nothing is printed as reasoning.
C22_EmptyReplies ==
  /\ []((pc = "stream" /\ CallsOf(reply) = <<>>) => ENABLED FinalResponse)
  /\ [][/\ (pc = "stream" /\ pc' = "done" /\ AllText(reply) = <<>>) =>
             /\ answer' = <<>>
             /\ reasoning' = <<>>
             /\ failure' = "none"
        /\ (pc = "stream" /\ pc' = "failed") => failure' = "backend"
        /\ (pc = "stream" /\ CallsOf(reply) # <<>> /\ pc' # "stream" /\ failure' = "none") =>
             /\ pc' \in {"tools", "await"}
             /\ executorCalls' = (IF script = "step4" THEN 1 ELSE 0)
             /\ toolRounds' = toolRounds + 1
             /\ AllText(reply) = <<>> => reasoning' = <<>>]_vars

\* runChatWithTool has ended on a reply with no part at all, after a round
\* whose reply was function calls and no text.
C22_Witness ==
  /\ script = "step3"
  /\ pc = "done"
  /\ reply = <<>>
  /\ answer = <<>>
  /\ reasoning = <<>>
  /\ failure = "none"
  /\ toolRounds = 1

\* C23: the function calls collected from a stream are those of its parts, in
\* the order of arrival; the batch given to the scheduler has one request for
\* each of them in that order; and runChatWithTool executes them one after the
\* other in that order, each once, all of them when the round gets to its end.
C23_RequestsInArrivalOrder ==
  [][/\ pc' = "stream" => functionCalls' = CallsOf(reply')
     /\ (pc = "stream" /\ pc' \in {"tools", "await"}) => functionCalls' = CallsOf(reply)
     /\ pc' = "await" =>
          /\ Len(toolCalls') = Len(functionCalls')
          /\ \A i \in 1..Len(toolCalls') : toolCalls'[i].name = functionCalls'[i].name
     /\ (script = "step3" /\ pc' \in {"tools", "send", "failed"}) =>
          /\ Len(toolResponses') <= Len(functionCalls')
          /\ executorCalls' = Len(toolResponses')
          /\ \A i \in 1..Len(toolResponses') :
               toolResponses'[i].parts[1].name = functionCalls'[i].name
     /\ (script = "step3" /\ pc = "tools" /\ pc' = "send") =>
          Len(toolResponses') = Len(functionCalls')]_vars

\* The scheduler of runDemo holds write_file and then read_file, as the reply
\* brought them.
C23_Witness ==
  /\ script = "step4"
  /\ pc = "await"
  /\ functionCalls = <<[name |-> "write_file"], [name |-> "read_file"]>>
  /\ Len(toolCalls) = 2
  /\ toolCalls[1].name = "write_file"
  /\ toolCalls[2].name = "read_file"

\* C21 as stated: in a round whose reply brought function calls, no text of
\* that round stands under "Assistant:".
C21_TextWithCallsIsNotAnswer ==
  pc \in {"tools", "await", "batch"} => answer = <<>>

\* The lines that are "y" or "yes" in some case, among those the operator enters.
YesLines == {<<"y">>, <<"Y">>, <<"y", "e", "s">>, <<"Y", "e", "S">>}

\* C27: the answer to "Proceed?" gives proceed-once when it is "y" or "yes" in
\* any case, and cancel when it is anything else; no call is ever decided
\* with proceed-always, and the auto-approve set stays empty.
C27_ConfirmYesOrCancel ==
  /\ lastAnswer.outcome # "none" =>
       /\ lastAnswer.outcome = "ProceedOnce" <=> lastAnswer.line \in YesLines
       /\ lastAnswer.outcome = "Cancel" <=> lastAnswer.line \notin YesLines
  /\ autoApprove = {}
  /\ \A i \in 1..Len(toolCalls) :
       /\ toolCalls[i].decision \in {"none", "ProceedOnce", "Cancel"}
       /\ toolCalls[i].decision = "Cancel" => toolCalls[i].status = "cancelled"
       /\ toolCalls[i].decision = "ProceedOnce" =>
            toolCalls[i].status \in {"executing", "completed", "errored"}

\* The operator has answered "YeS" and the write_file call asked about runs.
C27_Witness ==
  /\ script = "step5"
  /\ lastAnswer = [line |-> <<"Y", "e", "S">>, outcome |-> "ProceedOnce"]
  /\ Len(toolCalls) = 1
  /\ toolCalls[1].name = "write_file"
  /\ toolCalls[1].decision = "ProceedOnce"
  /\ toolCalls[1].status = "executing"

\* C28: a message of the step 5 REPL has at most one batch.  The event that
\* brings function calls is the last one consumed; when the batch is complete
\* one request is sent, with the response parts of the batch call after call,
\* and none after it; the text of its reply is printed under "Assistant:"; and
\* whatever that reply holds, nothing is scheduled.
C28_OneBatchOneFollowUp ==
  [][/\ toolRounds' <= 1
     /\ requests' <= 2
     /\ (pc = "events" /\ reply' # reply
           /\ reply'[Len(reply')].type = "FunctionCalls") =>
          /\ pc' = "batch"
          /\ toolRounds' = 1
          /\ functionCalls' = reply'[Len(reply')].calls
          /\ Len(toolCalls') = Len(functionCalls')
     /\ pc \in {"batch", "followup"} =>
          /\ toolRounds' = toolRounds
          /\ functionCalls' = functionCalls
          /\ Len(toolCalls') = Len(toolCalls)
     /\ (pc = "batch" /\ pc' = "batch") => requests' = requests /\ reply' = reply
     /\ (pc = "batch" /\ pc' # "batch") =>
          /\ pc' = "followup"
          /\ AllTerminal(toolCalls)
          /\ requests' = requests + 1
          /\ messages' = FlattenParts([i \in 1..Len(toolCalls) |-> toolCalls[i].response])
     /\ (pc = "followup" /\ pc' = "prompt") =>
          /\ answer' = answer \o ContentText(reply')
          /\ requests' = requests
          /\ toolCalls' = toolCalls
          /\ executorCalls' = executorCalls
     /\ pc \in {"prompt", "rejected"} =>
          /\ pc' = pc
          /\ requests' = requests
          /\ toolRounds' = toolRounds
          /\ executorCalls' = executorCalls]_vars

\* The follow-up reply of a batch of two calls is a function call with text:
\* the text is printed, the call is not scheduled.
C28_Witness ==
  /\ script = "step5"
  /\ pc = "prompt"
  /\ requests = 2
  /\ toolRounds = 1
  /\ Len(completedCalls) = 2
  /\ Len(reply) = 1
  /\ HasCall(reply[1])
  /\ answer = <<"a">>

\* The total length of the text of the parts of a reply that are thoughts
\* (thought = TRUE) or are not (thought = FALSE).
RECURSIVE TextLength(_, _)
TextLength(parts, thought) ==
  IF parts = <<>> THEN 0
  ELSE (IF Head(parts).thought = thought THEN Len(Head(parts).text) ELSE 0)
       + TextLength(Tail(parts), thought)

\* The parts of a reply that have text, in order.
RECURSIVE WithText(_)
WithText(parts) ==
  IF parts = <<>> THEN <<>>
  ELSE (IF Head(parts).text # <<>> THEN <<Head(parts)>> ELSE <<>>)
       \o WithText(Tail(parts))

\* What is to be written for text parts ps from the i-th on: each text, with
\* the header of its kind in front where the kind is not that of the text
\* part before it (or there is none before it).
RECURSIVE HeadersAtSwitches(_, _)
HeadersAtSwitches(ps, i) ==
  IF i > Len(ps) THEN <<>>
  ELSE (IF i = 1 \/ ps[i - 1].thought # ps[i].thought
        THEN <<IF ps[i].thought THEN <<"[THINKING]">> ELSE <<"[RESPONSE]">>>>
        ELSE <<>>)
       \o <<ps[i].text>> \o HeadersAtSwitches(ps, i + 1)

\* C29: in the stream loop of step 2, whatever parts have been consumed,
\* thoughtCount is the total length of the thought text and contentCount that
\* of the other text; isThinking and hasContent are not both true; and what
\* has been written is the texts in order, with "[THINKING]" before each
\* thought text that follows no thought text and "[RESPONSE]" before the first
\* content text and each content text that follows a thought text.
C29_CountsFlagsHeaders ==
  script = "step2" =>
    /\ thoughtCount = TextLength(reply, TRUE)
    /\ contentCount = TextLength(reply, FALSE)
    /\ ~(isThinking /\ hasContent)
    /\ printed = HeadersAtSwitches(WithText(reply), 1)

\* Thought text, content text, and thought text again: three headers, and a
\* thought count that is not the number of thought parts.
C29_Witness ==
  /\ script = "step2"
  /\ pc = "parts"
  /\ printed = <<<<"[THINKING]">>, <<"t", "t">>, <<"[RESPONSE]">>, <<"a">>,
                 <<"[THINKING]">>, <<"t">>>>
  /\ thoughtCount = 3
  /\ contentCount = 1
  /\ isThinking
  /\ ~hasContent

\* C24: a process that has ended has ended with code 1 if the key was missing
\* or a failure reached main().catch, and with code 0 otherwise; without the
\* key the first thing main does is to exit with 1, no request made; and a
\* run that has failed does nothing more than exit with 1.
C24_ExitCodes ==
  /\ [](exitCode # <<>> =>
          /\ exitCode = <<1>> <=> (~apiKey \/ pc = "failed")
          /\ exitCode = <<0>> <=> (apiKey /\ pc = "done")
          /\ ~apiKey => requests = 0 /\ pc = "main")
  /\ []((pc \in {"failed", "done"} /\ exitCode = <<>>) => ENABLED ProcessExit)
  /\ []((~apiKey /\ exitCode = <<>>) => ENABLED CheckApiKey)
  /\ [][/\ (~apiKey /\ exitCode = <<>>) => exitCode' = <<1>> /\ requests' = 0
        /\ (pc = "failed" /\ exitCode = <<>>) => exitCode' = <<1>>
        /\ exitCode # <<>> => FALSE]_vars

\* The step 5 script was started without the key and has exited with code 1.
C24_Witness ==
  /\ script = "step5"
  /\ ~apiKey
  /\ exitCode = <<1>>
  /\ requests = 0

\* C25: the request made of a function call has the call's id as callId when
\* the call carries a non-empty one and the tool name, "-" and the time when
\* it carries none; its name is the call's name; and its args are the call's
\* args, or the empty mapping when the call has none.
C25_RequestOfFunctionCall ==
  (request # NoRequest /\ request.made # Undefined) =>
    LET fc == request.fc[1]
        made == request.made[1]
    IN /\ fc.id \notin {Undefined, Defined("")} => made.callId = fc.id[1]
       /\ fc.id = Undefined => made.callId = GeneratedId(fc.name, request.now)
       /\ made.name = fc.name
       /\ made.args = Defined(Coalesce(fc.args, {}))

\* C26: for each of the expressions its declaration advertises, execute of
\* calculate returns '<expression> = <value>' and not an error text.
C26_AdvertisedExamplesEvaluate ==
  (/\ calculation # NoCalculation
   /\ calculation.result # Undefined
   /\ calculation.expression[1] \in AdvertisedExamples)
  => /\ calculation.result[1].outcome = "returned"
     /\ calculation.result[1].llmContent.form = "="

HasInvalidChar(expr) == \E i \in 1..Len(expr) : expr[i] \notin AllowedChars

\* C30: execute of calculate always returns; for an expression with a
\* character outside digits, + - * / ( ) . and space the result is the text
\* 'Error calculating <expression>: Invalid characters in expression', for
\* one whose evaluation fails it is 'Error calculating <expression>: ...',
\* and a result '<expression> = <value>' is given for no other expression;
\* and a call of calculate in a batch is never awaiting approval and never
\* gets a decision.
C30_CalculatorNeverThrowsNorAsks ==
  /\ (calculation # NoCalculation /\ calculation.result # Undefined) =>
       LET expr == calculation.expression[1]
           result == calculation.result[1]
       IN /\ result.outcome = "returned"
          /\ result.llmContent.expression = expr
          /\ HasInvalidChar(expr) =>
               result.llmContent =
                 ErrorText(expr, "Invalid characters in expression")
          /\ RunFunction(Cleaned(expr)).thrown =>
               result.llmContent.form = "Error calculating"
          /\ result.llmContent.form = "=" =>
               /\ ~HasInvalidChar(expr)
               /\ ~RunFunction(expr).thrown
  /\ \A i \in 1..Len(toolCalls) :
       toolCalls[i].name = CalculatorName =>
         /\ toolCalls[i].status # "awaiting_approval"
         /\ toolCalls[i].decision = "none"

\* execute was called with "2()", whose evaluation calls a number, and gave
\* the error text.
C30_Witness ==
  /\ calculation # NoCalculation
  /\ calculation.expression = Defined(<<"2", "(", ")">>)
  /\ calculation.result = Defined(ToolResult(ErrorText(<<"2", "(", ")">>, "TypeError")))

\* C31: the requests made of the function calls of one reply have pairwise
\* distinct callIds, whatever ids the backend left out and whatever the clock
\* gave.
C31_CallIdsDistinct ==
  (request # NoRequest /\ request.made # Undefined) =>
    LET made == request.made[1]
    IN \A i, j \in 1..Len(made) : i # j => made[i].callId # made[j].callId

\* C33: once sendStreamingMessage has finished - the prompt is shown again,
\* or the batch has been handed to the scheduler - the interval timer of its
\* spinner is cleared.
C33_SpinnerStopped ==
  (script = "step5" /\ pc \in {"prompt", "batch", "followup", "rejected"})
    => ~spinning

\* C34: while a line is being handled - the stream, the batch, the follow-up
\* request - the prompt has not been shown again, and when its handling has
\* ended, with a reply, a caught error or a failed follow-up, the prompt has
\* been shown again once.
C34_PromptOncePerLine ==
  script = "step5" =>
    /\ pc \in {"line", "events", "batch", "followup"} => prompts = 0
    /\ pc \in {"prompt", "rejected"} => prompts = 1

\* C32: whenever runDemo awaits schedulerFinished, it later leaves the await:
\* the promise is resolved and the loop goes on, or the failure reaches the
\* caller.
C32_BatchResumes == (pc = "await") ~> (pc # "await")

\* The parts of the responses that have responseParts, call after call:
\* strings as text parts, null and undefined left out, the others as they are.
RECURSIVE ForwardAll(_)
ForwardAll(rs) ==
  IF rs = <<>> THEN <<>>
  ELSE (IF HasResponseParts(Head(rs)) THEN ForwardParts(AsArray(Head(rs))) ELSE <<>>)
       \o ForwardAll(Tail(rs))

\* C35: in runChatWithTool the handling of a tool response raises no error,
\* whether its responseParts is one part or an array, and the parts collected
\* for the next round are those of all the responses so far.
C35_ResponsePartsForwarded ==
  script = "step3" =>
    /\ failure # "TypeError"
    /\ pc = "tools" => toolResponseParts = ForwardAll(toolResponses)
    /\ (pc = "send" /\ toolResponses # <<>>) => messages = ForwardAll(toolResponses)

====
